---------------------------- MODULE Spec2Model ----------------------------
(***************************************************************************)
(* The slidechain custodian: the watchers of the two ledgers, the peg-out  *)
(* engine and the transactions it builds, as a state machine.              *)
(*                                                                         *)
(* Three specifications share the definitions below:                       *)
(*   SpecExports  the Export Watcher alone, over a wide set of side-ledger *)
(*                transaction shapes;                                      *)
(*   Spec         the export -> peg-out pipeline: Export Watcher, Peg-Out  *)
(*                Engine (waiter goroutine and consumer loop), the main    *)
(*                ledger, the finalizer's channel receive, process stops   *)
(*                and restarts;                                            *)
(*   SpecPegIn    the Peg-In Watcher over the main-ledger stream.          *)
(***************************************************************************)
EXTENDS Integers, Sequences, FiniteSets, Bags, TLC

VARIABLES
    \* ---- the custodian process
    proc,          \* "up", "stopped", or the message of the log.Fatal or panic
                   \* that ended the process (and with it every goroutine)
    \* ---- persisted store
    exports,       \* table exports: txid -> [pegout_json, pegged_out]
    pegs,          \* table pegs: nonce_hash -> [amount, asset_xdr, zioncoin_tx]
    cursor,        \* table custodian: the persisted main-ledger cursor
    \* ---- side ledger / Export Watcher
    nextTxid,      \* number of side-ledger transactions the pin has delivered
    tx,            \* the side-ledger transaction the watcher handled last
    \* ---- exports condition variable and the Peg-Out Engine
    waiterPc,      \* waiter goroutine: "check" | "waiting" | "woken" | "done"
    enginePc,      \* consumer loop: "select" | "query" | "loop" | "update" | "send"
    txids,         \* the consumer's snapshot of the txids it selected
    idx,           \* the consumer's position in txids
    err,           \* the error pegOut returned for txids[idx]
    peggedOut,     \* the state the consumer is about to write
    pegOutTx,      \* the transaction pegOut built for txids[idx]
    \* ---- main ledger
    accounts,      \* temporary accounts: address -> [state, seq, signer]
    applied,       \* bag of the transactions the main ledger applied, each
                   \* with the txid of the export it was submitted for
    stream,        \* the custodian account's transaction history (peg-ins)
    \* ---- Peg-In Watcher
    pegInPc,       \* "idle" | "stream" | "update" | "cursor" | "broadcast" | "backoff"
    cur,           \* the watcher's in-memory cursor
    opIdx,         \* the operation of stream[cur] the callback is at
    observedWrites, \* nonce_hash -> the stream positions whose conditional update
                   \* affected the peg row, in order
    \* ---- shared context, completion channel, watchPegOuts
    ctx,           \* "live" | "cancelled"
    pegouts,       \* the completion channel: "open" | "closed"
    finPc,         \* watchPegOuts: "select" | "sweep" | "returned"
    finTxids,      \* the rows of the sweep still to hand to doPostPegOut
    handed,        \* the calls of doPostPegOut, in order: [txid, state, via]
    \* ---- BuildExportTx
    buildIn,       \* the arguments of the call
    buildOut,      \* what the call returned
    \* ---- the loop body of pegOutFromExports as a function
    orderRun,      \* a set of pending records and the outcome of each order
    \* ---- the export contract
    stage2Run,     \* an execution of stage 2 and what it left behind
    \* ---- the reference payload through its JSON form
    tripRun        \* a payload, its decoded form and the two transactions

vars == <<proc, exports, pegs, cursor, nextTxid, tx, waiterPc, enginePc, txids,
          idx, err, peggedOut, pegOutTx, accounts, applied, stream,
          pegInPc, cur, opIdx, observedWrites,
          ctx, pegouts, finPc, finTxids, handed, buildIn, buildOut,
          orderRun, stage2Run, tripRun>>

storeVars  == <<exports, pegs, cursor>>
exportVars == <<nextTxid, tx>>
engineVars == <<waiterPc, enginePc, txids, idx, err, peggedOut, pegOutTx>>
ledgerVars == <<accounts, applied>>
pegInVars  == <<stream, pegInPc, cur, opIdx, observedWrites, pegs, cursor>>
finVars    == <<ctx, pegouts, finPc, finTxids>>
sideVars   == <<handed, buildIn, buildOut, orderRun, stage2Run,
               tripRun>>

-----------------------------------------------------------------------------
(* Bounds of the model *)

MaxSideTxs == 2      \* side-ledger transactions delivered to the Export Watcher
MaxLogLen == 8       \* longest side-ledger transaction log drawn
MaxStream == 2       \* main-ledger transactions in the custodian's history
MaxAmount == 3       \* largest amount passed to BuildExportTx

-----------------------------------------------------------------------------
(* pegOutState, export.go *)

pegOutNotYet == 0
pegOutOK == 1
pegOutRetry == 2
pegOutFail == 3

baseFee == 100

\* One whole unit of a main-ledger asset in the ledger's smallest unit
\* (amount.One of the ledger's build package; xlm.Lumen).
One == 10000000

-----------------------------------------------------------------------------
(* Addresses, assets and amounts the inputs are drawn from *)

CustodianAddr == "GCUSTODIAN"
ExporterAddr  == "GEXPORTER"
TempAddrs     == {"GTEMP1", "GTEMP2"}
NonceHashes   == {"h1", "h2"}
IssuerAddr    == "GISSUER"
BadAddr       == ""
ValidAddrs    == {CustodianAddr, ExporterAddr, IssuerAddr} \cup TempAddrs
Network       == "Test Network"

AssetTypeNative           == 0
AssetTypeCreditAlphanum4  == 1
AssetTypeCreditAlphanum12 == 2

NativeAsset   == [Type |-> AssetTypeNative]
Credit4Asset  == [Type |-> AssetTypeCreditAlphanum4, Code |-> "USD",
                  Issuer |-> IssuerAddr]
Credit12Asset == [Type |-> AssetTypeCreditAlphanum12, Code |-> "LONGASSETCODE",
                  Issuer |-> IssuerAddr]
Assets        == {NativeAsset, Credit4Asset, Credit12Asset}

Amounts == {1, 50}

\* The sequence number the main ledger gives a new temporary account.
StartSeq == 7

\* xdr.Asset.MarshalBinary: the union's discriminant, then its arm.
MarshalAsset(asset) ==
    IF asset.Type = AssetTypeNative
    THEN <<asset.Type>>
    ELSE <<asset.Type, asset.Code, asset.Issuer>>

\* xdr.SafeUnmarshal into an xdr.Asset: fails on an unknown discriminant.
UnmarshalAsset(bytes) ==
    IF Len(bytes) = 1 /\ bytes[1] = AssetTypeNative
    THEN [ok |-> TRUE, asset |-> [Type |-> AssetTypeNative]]
    ELSE IF Len(bytes) = 3 /\ bytes[1] \in {AssetTypeCreditAlphanum4,
                                             AssetTypeCreditAlphanum12}
    THEN [ok |-> TRUE,
          asset |-> [Type |-> bytes[1], Code |-> bytes[2], Issuer |-> bytes[3]]]
    ELSE [ok |-> FALSE, asset |-> NativeAsset]

\* SetAddress taking any string.
SetAddressUnchecked(addr) == [ok |-> TRUE, addr |-> addr]

\* xdr.AccountId.SetAddress: fails unless the string decodes as an address.
SetAddress(addr) == [ok |-> addr \in ValidAddrs, addr |-> addr]

-----------------------------------------------------------------------------
(* The reference payload, type pegOut, and its JSON form *)

Field(obj, key, zero) == IF key \in DOMAIN obj THEN obj[key] ELSE zero

\* A Go string that is not valid UTF-8, and what json.Marshal writes for
\* it: each invalid byte becomes the replacement rune U+FFFD.
InvalidUTF8Addr == "GTEMP<ff>"
ReplacedAddr    == "GTEMP<U+FFFD>"

ValidUTF8(str) == str # InvalidUTF8Addr

\* encoding/json on a string value: coerced to valid UTF-8.
ToValidUTF8(str) == IF ValidUTF8(str) THEN str ELSE ReplacedAddr

\* json.Marshal(pegOut): the fields under their json tags; TxID and State
\* are tagged "-" and left out.  A []byte field is written in base64 and
\* read back from it, which keeps every byte string: it stands here as the
\* byte string.
MarshalPegOut(p) ==
    [kind |-> "json",
     obj  |-> [asset |-> p.AssetXDR, temp |-> ToValidUTF8(p.TempAddr),
               seqnum |-> p.Seqnum, exporter |-> ToValidUTF8(p.Exporter),
               amount |-> p.Amount, anchor |-> p.Anchor, pubkey |-> p.Pubkey]]

\* json.Unmarshal into a struct whose sequence-number field carries the
\* tag "seq": the key "seqnum" of the payload is not read.
UnmarshalPegOutOtherTag(bytes) ==
    IF bytes.kind = "json"
    THEN [ok |-> TRUE,
          p  |-> [AssetXDR |-> Field(bytes.obj, "asset", <<>>),
                  TempAddr |-> Field(bytes.obj, "temp", ""),
                  Seqnum   |-> Field(bytes.obj, "seq", 0),
                  Exporter |-> Field(bytes.obj, "exporter", ""),
                  Amount   |-> Field(bytes.obj, "amount", 0),
                  Anchor   |-> Field(bytes.obj, "anchor", <<>>),
                  Pubkey   |-> Field(bytes.obj, "pubkey", <<>>)]]
    ELSE [ok |-> FALSE, p |-> [AssetXDR |-> <<>>]]

\* json.Unmarshal(bytes, &pegOut): an error unless bytes hold a JSON object;
\* a key that is absent leaves the field at its zero value.
UnmarshalPegOut(bytes) ==
    IF bytes.kind = "json"
    THEN [ok |-> TRUE,
          p  |-> [AssetXDR |-> Field(bytes.obj, "asset", <<>>),
                  TempAddr |-> Field(bytes.obj, "temp", ""),
                  Seqnum   |-> Field(bytes.obj, "seqnum", 0),
                  Exporter |-> Field(bytes.obj, "exporter", ""),
                  Amount   |-> Field(bytes.obj, "amount", 0),
                  Anchor   |-> Field(bytes.obj, "anchor", <<>>),
                  Pubkey   |-> Field(bytes.obj, "pubkey", <<>>)]]
    ELSE [ok |-> FALSE, p |-> [AssetXDR |-> <<>>]]

\* The pegOut an export of `amount` of `asset` through temporary account
\* `temp` (sequence number `seqnum`) carries: BuildExportTx's ref.
ExportRef(asset, amount, temp, seqnum) ==
    [AssetXDR |-> MarshalAsset(asset), TempAddr |-> temp, Seqnum |-> seqnum,
     Exporter |-> ExporterAddr, Amount |-> amount,
     Anchor |-> <<"anchor">>, Pubkey |-> <<"pubkey">>]

-----------------------------------------------------------------------------
(* Amount strings of the main-ledger transaction builder.  A decimal       *)
(* string is kept as its whole part and its seven fractional digits.       *)

\* xlm.Amount(amount).HorizonString(): stroops written as a decimal number
\* of whole units.
HorizonString(amount) == [units |-> amount \div One, frac |-> amount % One]

\* strconv.FormatInt(amount, 10): the integer written as it is.
FormatInt(amount) == [units |-> amount, frac |-> 0]

\* amount.Parse, applied by the builder to NativeAmount.Amount and
\* CreditAmount.Amount: a decimal number of whole units, in smallest units.
ParseAmount(str) == str.units * One + str.frac

\* b.Payment(SourceAccount, Destination, NativeAmount | CreditAmount)
Payment(source, destination, asset, amountStr) ==
    [type |-> "Payment", source |-> source, destination |-> destination,
     asset |-> asset, amount |-> ParseAmount(amountStr)]

\* b.AccountMerge(Destination): merges the transaction's source account.
AccountMerge(destination) ==
    [type |-> "AccountMerge", destination |-> destination]

\* A peg-out built as a plain payment from the custodian's own account,
\* sequenced by the ledger client: no temporary account.
buildPegOutTxNoTemp(custodianAddr, exporterAddr, tempAddr, network, asset, amount, seqnum) ==
    [network |-> network, source |-> custodianAddr, seq |-> 0,
     fee |-> baseFee,
     ops |-> <<Payment(custodianAddr, exporterAddr, asset,
                       IF asset.Type = AssetTypeNative
                       THEN HorizonString(amount) ELSE FormatInt(amount))>>]

\* buildPegOutTx with the two operations in the other order and the
\* recorded sequence number used as it is.
buildPegOutTxSwapped(custodianAddr, exporterAddr, tempAddr, network, asset, amount, seqnum) ==
    [network |-> network, source |-> tempAddr, seq |-> seqnum,
     fee |-> baseFee,
     ops |-> <<Payment(custodianAddr, exporterAddr, asset,
                       IF asset.Type = AssetTypeNative
                       THEN HorizonString(amount) ELSE FormatInt(amount)),
               AccountMerge(exporterAddr)>>]

\* buildPegOutTx, export.go
buildPegOutTx(custodianAddr, exporterAddr, tempAddr, network, asset, amount, seqnum) ==
    LET paymentOp ==
            IF asset.Type = AssetTypeNative
            THEN Payment(custodianAddr, exporterAddr, asset, HorizonString(amount))
            ELSE IF asset.Type = AssetTypeCreditAlphanum4
            THEN Payment(custodianAddr, exporterAddr, asset, FormatInt(amount))
            ELSE Payment(custodianAddr, exporterAddr, asset, FormatInt(amount))
        mergeAccountOp == AccountMerge(exporterAddr)
    IN  [network |-> network, source |-> tempAddr, seq |-> seqnum + 1,
         fee |-> baseFee, ops |-> <<mergeAccountOp, paymentOp>>]

-----------------------------------------------------------------------------
(* The main ledger, as Pegging.md describes the temporary account *)

NoTx == [network |-> "none"]
NoAccount == [state |-> "none", seq |-> 0, signer |-> NoTx]

HasMerge(t) == \E k \in 1..Len(t.ops) : t.ops[k].type = "AccountMerge"

\* What the ledger answers to transaction t: its result code and the
\* temporary accounts afterwards.  opsOk: whether the operations can be
\* applied (the destination exists and holds the trustline).
LedgerSubmit(accts, t, opsOk) ==
    IF t.source \in TempAddrs /\ accts[t.source].state # "live"
    THEN [code |-> "tx_no_source_account", accounts |-> accts]
    ELSE IF t.source \in TempAddrs /\ t.seq # accts[t.source].seq + 1
    THEN [code |-> "tx_bad_seq", accounts |-> accts]
    ELSE IF t.source \in TempAddrs /\ accts[t.source].signer # t
    THEN [code |-> "tx_bad_auth", accounts |-> accts]
    ELSE IF ~opsOk
    THEN [code |-> "tx_failed",
          accounts |-> IF t.source \in TempAddrs
                       THEN [accts EXCEPT ![t.source].seq = t.seq,
                                          ![t.source].signer = NoTx]
                       ELSE accts]
    ELSE [code |-> "tx_success",
          accounts |-> IF t.source \in TempAddrs
                       THEN [accts EXCEPT ![t.source] =
                               [state  |-> IF HasMerge(t) THEN "merged" ELSE "live",
                                seq    |-> t.seq,
                                signer |-> NoTx]]
                       ELSE accts]

\* SubmitPreExportTx: the exporter creates temporary account temp and makes
\* the peg-out transaction its only signer (master weight 0).
SubmitPreExportTx(temp, asset, amount) ==
    /\ accounts[temp].state = "none"
    /\ LET seqnum == StartSeq
           preauthTx == buildPegOutTx(CustodianAddr, ExporterAddr, temp, Network,
                                      asset, amount, seqnum)
       IN  accounts' = [accounts EXCEPT ![temp] =
                          [state |-> "live", seq |-> seqnum,
                           signer |-> preauthTx]]
    /\ UNCHANGED <<proc, exports, pegs, cursor, nextTxid, tx, waiterPc, enginePc,
                   txids, idx, err, peggedOut, pegOutTx, applied,
                   stream, pegInPc, cur, opIdx, observedWrites>>
    /\ UNCHANGED <<finVars, sideVars>>

-----------------------------------------------------------------------------
(* The side ledger: transaction logs.  A log entry is the tuple            *)
(* <<code, contract seed, item>>; Go's index [0] is index 1 here.          *)

InputCode  == "I"
LogCode    == "L"
OutputCode == "O"
FinalizeCode == "F"

exportContract1Seed == "exportContract1Seed"
OtherSeed == "otherSeed"

NoItem == [kind |-> "bytes"]
IntItem == [kind |-> "int"]      \* a logged item that is no byte string
Garbage == [kind |-> "bytes", data |-> "not json"]    \* bytes that are no JSON object

\* A log of n entries whose entries 0, 1, n-3 and n-2 (Go indices) carry the
\* given codes, whose entry n-3 names `seed` and whose entry 1 logs `item`.
MkLog(n, c0, c1, cSeed, cOut, seed, item) ==
    [k \in 1..n |->
        IF k = 1 THEN <<c0, OtherSeed, NoItem>>
        ELSE IF k = 2 THEN <<c1, IF n = 4 THEN seed ELSE OtherSeed, item>>
        ELSE IF k = n - 2 THEN <<cSeed, seed, NoItem>>
        ELSE IF k = n - 1 THEN <<cOut, OtherSeed, NoItem>>
        ELSE <<FinalizeCode, OtherSeed, NoItem>>]

\* The log of an export: input, log(payload), log(export seed), output,
\* finalize; with change, two more entries in the middle.
ExportLog(n, item) ==
    MkLog(n, InputCode, LogCode, LogCode, OutputCode, exportContract1Seed, item)

\* The code tuples drawn: the export's, and each single deviation from it.
CodeTuples ==
    {<<InputCode, LogCode, LogCode, OutputCode>>}
    \cup {<<c, LogCode, LogCode, OutputCode>> : c \in {LogCode, OutputCode}}
    \cup {<<InputCode, c, LogCode, OutputCode>> : c \in {InputCode, OutputCode}}
    \cup {<<InputCode, LogCode, c, OutputCode>> : c \in {InputCode, OutputCode}}
    \cup {<<InputCode, LogCode, LogCode, c>> : c \in {InputCode, LogCode}}

\* Payloads of the Export Watcher's own specification.
WatchRefs ==
    {ExportRef(a, 50, "GTEMP1", StartSeq) : a \in {NativeAsset, Credit4Asset}}

WatchItems ==
    {MarshalPegOut(r) : r \in WatchRefs}
    \cup {[kind |-> "json", obj |-> [temp |-> "GTEMP1"]], Garbage, IntItem}

\* What a transaction really locked in the export contract.
Locked == [amount : Amounts, asset : {NativeAsset, Credit4Asset}]

WatchSideTxs ==
    {[log |-> MkLog(n, c[1], c[2], c[3], c[4], seed, item), locked |-> l] :
        n \in 4..MaxLogLen, c \in CodeTuples,
        seed \in {exportContract1Seed, OtherSeed},
        item \in WatchItems, l \in Locked}

\* BuildExportTx not called yet.
NoCall == [called |-> FALSE]

NoSideTx == [id |-> 0, log |-> <<>>, locked |-> [amount |-> 0, asset |-> NativeAsset]]

-----------------------------------------------------------------------------
(* Process stop: every goroutine ends, memory is lost, the store stays *)

MemoryLost ==
    /\ waiterPc' = "check"
    /\ enginePc' = "select"
    /\ txids' = <<>>
    /\ idx' = 0
    /\ err' = "nil"
    /\ peggedOut' = pegOutNotYet
    /\ pegOutTx' = NoTx
    /\ pegInPc' = "idle"
    /\ cur' = 0
    /\ opIdx' = 0
    /\ ctx' = "live"
    /\ pegouts' = "open"
    /\ finPc' = "select"
    /\ finTxids' = <<>>

\* log.Fatal / log.Fatalf / a panic: the process exits.
Fatal(msg) ==
    /\ proc' = msg
    /\ MemoryLost

FatalResultCodes == "fatal: getting error codes from failed submission"
FatalRefdata     == "fatal: unmarshaling refdata"
FatalRowsAffected == "fatal: rows affected by update exports query"
PanicLogItem     == "panic: interface conversion"
FatalReadingRows == "fatal: reading export rows"
FatalUpdatingExport == "fatal: updating export table"

\* sync.Cond.Broadcast on c.exports: wakes the goroutines waiting now.
BroadcastExports(pc) == IF pc = "waiting" THEN "woken" ELSE pc

-----------------------------------------------------------------------------
(* watchExports: the body of the loop over a block's transactions *)

\* The shape test without the comparison of the contract seed.
IsExportShapeAnySeed(log) ==
    /\ Len(log) = 5 \/ Len(log) = 7
    /\ log[1][1] = InputCode
    /\ log[2][1] = LogCode
    /\ log[Len(log) - 1][1] = OutputCode
    /\ log[Len(log) - 2][1] = LogCode

\* Lines 118-139: the shape test.
IsExportShape(log) ==
    /\ Len(log) = 5 \/ Len(log) = 7
    /\ log[1][1] = InputCode
    /\ log[2][1] = LogCode
    /\ log[Len(log) - 1][1] = OutputCode
    /\ log[Len(log) - 2][1] = LogCode
    /\ log[Len(log) - 2][2] = exportContract1Seed

\* The INSERT with the row stored under one fixed key, whatever the txid.
InsertExportOneKey(table, txid, ref) ==
    [t \in DOMAIN table \cup {1} |->
        IF t = 1 THEN [pegout_json |-> ref, pegged_out |-> pegOutNotYet]
        ELSE table[t]]

\* Lines 151-152: INSERT INTO exports (txid, pegout_json); pegged_out takes
\* the column's default.
InsertExport(table, txid, ref) ==
    table @@ (txid :> [pegout_json |-> ref, pegged_out |-> pegOutNotYet])

watchExports(stx) ==
    /\ proc = "up"
    /\ nextTxid < MaxSideTxs
    /\ nextTxid' = nextTxid + 1
    /\ tx' = [id |-> nextTxid + 1, log |-> stx.log, locked |-> stx.locked]
    /\ IF ~IsExportShape(stx.log)
       THEN \* continue
            UNCHANGED <<finVars, proc, exports, waiterPc, enginePc, txids, idx, err,
                        peggedOut, pegOutTx, pegInPc, cur, opIdx>>
       ELSE IF stx.log[2][3].kind = "int"
       THEN \* tx.Log[1][2].(txvm.Bytes) panics
            Fatal(PanicLogItem) /\ UNCHANGED exports
       ELSE IF ~UnmarshalPegOut(stx.log[2][3]).ok
       THEN \* continue
            UNCHANGED <<finVars, proc, exports, waiterPc, enginePc, txids, idx, err,
                        peggedOut, pegOutTx, pegInPc, cur, opIdx>>
       ELSE \* INSERT INTO exports, then c.exports.Broadcast()
            /\ exports' = InsertExport(exports, nextTxid + 1, stx.log[2][3])
            /\ waiterPc' = BroadcastExports(waiterPc)
            /\ UNCHANGED <<finVars, proc, enginePc, txids, idx, err, peggedOut,
                           pegOutTx, pegInPc, cur, opIdx>>
    /\ UNCHANGED <<pegs, cursor, accounts, applied,
                   stream, observedWrites>>
    /\ UNCHANGED sideVars

-----------------------------------------------------------------------------
Init ==
    /\ proc = "up"
    /\ exports = <<>>
    /\ pegs = << >>
    /\ cursor = 0
    /\ nextTxid = 0
    /\ tx = NoSideTx
    /\ waiterPc = "check"
    /\ enginePc = "select"
    /\ txids = <<>>
    /\ idx = 0
    /\ err = "nil"
    /\ peggedOut = pegOutNotYet
    /\ pegOutTx = NoTx
    /\ accounts = [t \in TempAddrs |-> NoAccount]
    /\ applied = EmptyBag
    /\ stream = <<>>
    /\ pegInPc = "idle"
    /\ cur = 0
    /\ opIdx = 0
    /\ observedWrites = [h \in NonceHashes |-> <<>>]
    /\ ctx = "live"
    /\ pegouts = "open"
    /\ finPc = "select"
    /\ finTxids = <<>>
    /\ handed = <<>>
    /\ buildIn = NoCall
    /\ buildOut = NoCall
    /\ orderRun = NoCall
    /\ stage2Run = NoCall
    /\ tripRun = NoCall

WatchExportsStep == \E stx \in WatchSideTxs : watchExports(stx)

NextExports == WatchExportsStep

SpecExports == Init /\ [][NextExports]_vars

-----------------------------------------------------------------------------
(* pegOutFromExports: the waiter goroutine *)

\* Lines 107-111: ctx not cancelled, c.exports.Wait().
WaiterWait ==
    /\ proc = "up"
    /\ waiterPc = "check"
    /\ ctx = "live"
    /\ waiterPc' = "waiting"
    /\ UNCHANGED <<proc, exports, pegs, cursor, nextTxid, tx, enginePc, txids,
                   idx, err, peggedOut, pegOutTx, accounts, applied,
                   stream, pegInPc, cur, opIdx, observedWrites>>
    /\ UNCHANGED <<finVars, sideVars>>

(* pegOutFromExports: the consumer loop *)

\* Lines 112 and 120: the waiter's send on ch meets the consumer's receive.
EngineRecv ==
    /\ proc = "up"
    /\ waiterPc = "woken"
    /\ enginePc = "select"
    /\ waiterPc' = "check"
    /\ enginePc' = "query"
    /\ UNCHANGED <<proc, exports, pegs, cursor, nextTxid, tx, txids, idx, err,
                   peggedOut, pegOutTx, accounts, applied, stream,
                   pegInPc, cur, opIdx, observedWrites>>
    /\ UNCHANGED <<finVars, sideVars>>

\* The orders in which a query may return the rows of `rows`.
Orders(rows) ==
    {s \in [1..Cardinality(rows) -> rows] :
        \A i, j \in 1..Cardinality(rows) : i # j => s[i] # s[j]}

\* The rows the query selects, with every state accepted.
SelectAll(table) == DOMAIN table

\* The rows the query selects, with the records queued for a retry left out.
SelectNotYetOnly(table) ==
    {t \in DOMAIN table : table[t].pegged_out = pegOutNotYet}

\* Lines 122-130: SELECT txid, pegout_json FROM exports
\*                WHERE pegged_out IN (pegOutNotYet, pegOutRetry)
SelectPending(table) ==
    {t \in DOMAIN table : table[t].pegged_out \in {pegOutNotYet, pegOutRetry}}

EngineQuery ==
    /\ proc = "up"
    /\ enginePc = "query"
    /\ IF ctx = "cancelled"
       THEN \* ForQueryRows returns the context's error
            Fatal(FatalReadingRows)
       ELSE /\ \E order \in Orders(SelectPending(exports)) :
                  /\ txids' = order
                  /\ IF Len(order) = 0
                     THEN enginePc' = "select" /\ idx' = 0
                     ELSE enginePc' = "loop" /\ idx' = 1
            /\ UNCHANGED <<proc, waiterPc, err, peggedOut, pegOutTx,
                           pegInPc, cur, opIdx, finVars>>
    /\ UNCHANGED <<exports, pegs, cursor, nextTxid, tx, accounts, applied,
                   stream, observedWrites>>
    /\ UNCHANGED sideVars

\* What the ledger client reports for a submission.
\*   "nil"               the transaction was applied
\*   a result code       *equator.Error carrying the ledger's result code
\*   "equator_no_codes"  *equator.Error whose result codes cannot be read
\*   "non_equator"       any other error (transport, building the transaction)
ClientError(code, report) ==
    IF report # "faithful" THEN report
    ELSE IF code = "tx_success" THEN "nil" ELSE code

Reports == {"faithful", "equator_no_codes", "non_equator"}

\* The classification with every failure taken as terminal.
ClassifyNoRetry(e) == IF e = "nil" THEN pegOutOK ELSE pegOutFail

\* The classification with the error looked at for a bad sequence number only.
ClassifyOkUnlessBadSeq(e) == IF e = "tx_bad_seq" THEN pegOutRetry ELSE pegOutOK

\* Lines 157-170: the state to write for the error pegOut returned.
Classify(e) ==
    IF e = "nil" THEN pegOutOK
    ELSE IF e = "non_equator" THEN pegOutFail
    ELSE IF e = "tx_bad_seq" THEN pegOutRetry
    ELSE pegOutFail

\* Lines 134-170: decode the record, build and submit the peg-out
\* transaction, classify the outcome.
EnginePegOut ==
    /\ proc = "up"
    /\ enginePc = "loop"
    /\ LET txid  == txids[idx]
           ref   == UnmarshalPegOut(exports[txid].pegout_json)
           p     == ref.p
           asset == UnmarshalAsset(p.AssetXDR)
           tempID   == SetAddress(p.TempAddr)
           exporter == SetAddress(p.Exporter)
       IN  IF ~ref.ok \/ ~asset.ok \/ ~tempID.ok \/ ~exporter.ok
           THEN /\ Fatal(FatalRefdata)
                /\ UNCHANGED <<accounts, applied>>
           ELSE \E reached \in BOOLEAN, opsOk \in BOOLEAN, report \in Reports :
                  LET t == buildPegOutTx(CustodianAddr, exporter.addr, tempID.addr,
                                         Network, asset.asset, p.Amount, p.Seqnum)
                      res == LedgerSubmit(accounts, t, opsOk)
                      e == ClientError(res.code, report)
                  IN  /\ reached \/ report # "faithful"
                      /\ IF reached
                         THEN /\ accounts' = res.accounts
                              /\ applied' = IF res.code = "tx_success"
                                            THEN applied (+) SetToBag({[txid |-> txid, tx |-> t]})
                                            ELSE applied
                         ELSE UNCHANGED <<accounts, applied>>
                      /\ IF e = "equator_no_codes"
                         THEN \* herr.ResultCodes() fails: log.Fatalf
                              Fatal(FatalResultCodes)
                         ELSE /\ err' = e
                              /\ pegOutTx' = t
                              /\ peggedOut' = Classify(e)
                              /\ enginePc' = "update"
                              /\ UNCHANGED <<finVars, proc, waiterPc, txids, idx, pegInPc,
                                             cur, opIdx>>
    /\ UNCHANGED <<exports, pegs, cursor, nextTxid, tx, stream,
                   observedWrites>>
    /\ UNCHANGED sideVars

\* The consumer moves to the next selected row, or back to the select.
\* The loop's locals (err, peggedOut) go out of scope.
EngineAdvance ==
    /\ err' = "nil"
    /\ peggedOut' = pegOutNotYet
    /\ pegOutTx' = NoTx
    /\ IF idx < Len(txids)
       THEN enginePc' = "loop" /\ idx' = idx + 1 /\ UNCHANGED txids
       ELSE enginePc' = "select" /\ idx' = 0 /\ txids' = <<>>

\* The update without its WHERE clause.
WriteStateAllRows(table, txid, state) ==
    [t \in DOMAIN table |-> [table[t] EXCEPT !.pegged_out = state]]

\* Line 172: UPDATE exports SET pegged_out=$1 WHERE txid=$2.
WriteState(table, txid, state) == [table EXCEPT ![txid].pegged_out = state]

\* Every state written is forwarded.
ForwardsAnyState(state) == TRUE

\* Line 185: the states whose record is sent on the completion channel.
Forwards(state) == state = pegOutOK \/ state = pegOutFail

\* Lines 171-188, up to the send: UPDATE exports SET pegged_out WHERE txid.
EngineUpdate ==
    /\ proc = "up"
    /\ enginePc = "update"
    /\ IF ctx = "cancelled"
       THEN \* ExecContext returns the context's error
            Fatal(FatalUpdatingExport) /\ UNCHANGED exports
       ELSE IF txids[idx] \notin DOMAIN exports
       THEN \* numAffected != 1
            Fatal(FatalRowsAffected) /\ UNCHANGED exports
       ELSE /\ exports' = WriteState(exports, txids[idx], peggedOut)
            /\ IF Forwards(peggedOut)
               THEN /\ enginePc' = "send"
                    /\ UNCHANGED <<txids, idx, err, peggedOut, pegOutTx>>
               ELSE EngineAdvance
            /\ UNCHANGED <<finVars, proc, waiterPc, pegInPc, cur, opIdx>>
    /\ UNCHANGED <<pegs, cursor, nextTxid, tx, accounts, applied, stream,
                   observedWrites>>
    /\ UNCHANGED sideVars

\* Line 187 meets watchPegOuts' receive (case p, ok := <-pegouts), which
\* hands the record to doPostPegOut.
EngineSend ==
    /\ proc = "up"
    /\ enginePc = "send"
    /\ EngineAdvance
    /\ UNCHANGED <<proc, exports, pegs, cursor, nextTxid, tx, waiterPc,
                   accounts, applied, stream, pegInPc,
                   cur, opIdx, observedWrites>>
    /\ UNCHANGED <<finVars, sideVars>>

-----------------------------------------------------------------------------
(* The custodian stops (at any point) and is started again *)

Stop ==
    /\ proc = "up"
    /\ proc' = "stopped"
    /\ MemoryLost
    /\ UNCHANGED <<exports, pegs, cursor, nextTxid, tx, accounts,
                   applied, stream, observedWrites>>
    /\ UNCHANGED sideVars

Restart ==
    /\ proc # "up"
    /\ proc' = "up"
    /\ UNCHANGED <<exports, pegs, cursor, nextTxid, tx, waiterPc, enginePc,
                   txids, idx, err, peggedOut, pegOutTx, accounts, applied,
                   stream, pegInPc, cur, opIdx, observedWrites>>
    /\ UNCHANGED <<finVars, sideVars>>

-----------------------------------------------------------------------------
(* The export -> peg-out pipeline *)

\* The temporary account the exports of the pipeline go through.
PipelineTemps == {"GTEMP1"}

\* Payloads of the pipeline: what an honest export through the temporary
\* account carries, one with a sequence number the account is not at, one
\* whose temporary address does not decode.
PipelineRefs ==
    {ExportRef(a, 50, t, StartSeq) : a \in Assets, t \in PipelineTemps}
    \cup {ExportRef(NativeAsset, 50, "GTEMP1", StartSeq + 1),
          ExportRef(NativeAsset, 50, BadAddr, StartSeq)}

PipelineSideTxs ==
    {[log |-> ExportLog(5, MarshalPegOut(r)),
      locked |-> [amount |-> r.Amount,
                  asset |-> UnmarshalAsset(r.AssetXDR).asset]] : r \in PipelineRefs}
    \cup {[log |-> MkLog(4, InputCode, LogCode, LogCode, OutputCode, OtherSeed, NoItem),
           locked |-> [amount |-> 0, asset |-> NativeAsset]]}

PipelineExport == \E stx \in PipelineSideTxs : watchExports(stx)

PreExport ==
    \E temp \in PipelineTemps, asset \in Assets :
        SubmitPreExportTx(temp, asset, 50)

Next ==
    \/ PreExport
    \/ PipelineExport
    \/ WaiterWait
    \/ EngineRecv
    \/ EngineQuery
    \/ EnginePegOut
    \/ EngineUpdate
    \/ EngineSend
    \/ Stop
    \/ Restart

Spec == Init /\ [][Next]_vars

\* The pipeline while the custodian stays up, every goroutine that can take
\* a step eventually taking it.
NextWake ==
    \/ PreExport
    \/ PipelineExport
    \/ WaiterWait
    \/ EngineRecv
    \/ EngineQuery
    \/ EnginePegOut
    \/ EngineUpdate
    \/ EngineSend

SpecWake ==
    /\ Init
    /\ [][NextWake]_vars
    /\ WF_vars(WaiterWait)
    /\ WF_vars(EngineRecv)
    /\ WF_vars(EngineQuery)
    /\ WF_vars(EnginePegOut)
    /\ WF_vars(EngineUpdate)
    /\ WF_vars(EngineSend)

-----------------------------------------------------------------------------
(* The Peg-In Watcher, watchPegIns *)

FatalPegRows == "fatal: multiple rows affected by update query"

\* A main-ledger operation and the transactions the stream is drawn from.
PayCustodian == [type |-> "payment", destination |-> CustodianAddr,
                 asset |-> NativeAsset, amount |-> 50]
PayOther     == [type |-> "payment", destination |-> ExporterAddr,
                 asset |-> NativeAsset, amount |-> 50]
OtherOp      == [type |-> "manage_data", destination |-> "",
                 asset |-> NativeAsset, amount |-> 0]

MemoNone == "MemoTypeMemoNone"
MainTxs ==
    {[memo |-> MemoNone, ops |-> <<PayCustodian>>]}
    \cup {[memo |-> h, ops |-> o] :
            h \in NonceHashes,
            o \in {<<PayCustodian>>, <<PayOther>>, <<OtherOp, PayCustodian>>,
                   <<PayCustodian, PayCustodian>>}}

\* The main ledger adds a transaction to the custodian account's history.
MainLedgerTx(mtx) ==
    /\ Len(stream) < MaxStream
    /\ stream' = Append(stream, mtx)
    /\ UNCHANGED <<proc, exports, pegs, cursor, nextTxid, tx, waiterPc, enginePc,
                   txids, idx, err, peggedOut, pegOutTx, accounts, applied,
                   pegInPc, cur, opIdx, observedWrites>>
    /\ UNCHANGED <<finVars, sideVars>>

\* The pegs row written when a peg-in is announced (its uniqueness token is
\* created): not yet seen on the main ledger.
RecordPeg(h) ==
    /\ h \notin DOMAIN pegs
    /\ pegs' = pegs @@ (h :> [amount |-> 0, asset_xdr |-> <<>>, zioncoin_tx |-> 0])
    /\ UNCHANGED <<proc, exports, cursor, nextTxid, tx, waiterPc, enginePc,
                   txids, idx, err, peggedOut, pegOutTx, accounts, applied,
                   stream, pegInPc, cur, opIdx, observedWrites>>
    /\ UNCHANGED <<finVars, sideVars>>

\* Lines 41-53: the first operation of mtx after position `from` that is a
\* payment to the custodian's account; 0 when there is none or the memo is
\* no hash.
NextPegOp(mtx, from) ==
    LET hits == {k \in (from + 1)..Len(mtx.ops) :
                    /\ mtx.ops[k].type = "payment"
                    /\ mtx.ops[k].destination = CustodianAddr}
    IN  IF mtx.memo = MemoNone \/ hits = {} THEN 0
        ELSE CHOOSE k \in hits : \A j \in hits : k <= j

\* Lines 25-29: SELECT cursor FROM custodian.
PegInStart ==
    /\ proc = "up"
    /\ pegInPc = "idle"
    /\ cur' = cursor
    /\ pegInPc' = "stream"
    /\ UNCHANGED <<proc, exports, pegs, cursor, nextTxid, tx, waiterPc, enginePc,
                   txids, idx, err, peggedOut, pegOutTx, accounts, applied,
                   stream, opIdx, observedWrites>>
    /\ UNCHANGED <<finVars, sideVars>>

\* A stream that hands over any transaction of the history, whatever the
\* cursor.
PegInDeliverAny ==
    /\ proc = "up"
    /\ pegInPc = "stream"
    /\ \E k \in 1..Len(stream) :
          /\ cur' = k
          /\ opIdx' = NextPegOp(stream[k], 0)
          /\ pegInPc' = IF NextPegOp(stream[k], 0) = 0 THEN "stream" ELSE "update"
    /\ UNCHANGED <<proc, exports, pegs, cursor, nextTxid, tx, waiterPc, enginePc,
                   txids, idx, err, peggedOut, pegOutTx, accounts, applied,
                   stream, observedWrites>>
    /\ UNCHANGED <<finVars, sideVars>>

\* Lines 32-53: StreamTransactions hands the next transaction after the
\* cursor to the callback, which looks for a peg.
PegInDeliver ==
    /\ proc = "up"
    /\ pegInPc = "stream"
    /\ cur < Len(stream)
    /\ cur' = cur + 1
    /\ opIdx' = NextPegOp(stream[cur + 1], 0)
    /\ pegInPc' = IF NextPegOp(stream[cur + 1], 0) = 0 THEN "stream" ELSE "update"
    /\ UNCHANGED <<proc, exports, pegs, cursor, nextTxid, tx, waiterPc, enginePc,
                   txids, idx, err, peggedOut, pegOutTx, accounts, applied,
                   stream, observedWrites>>
    /\ UNCHANGED <<finVars, sideVars>>

\* The WHERE clause without the condition on zioncoin_tx.
UpdateMatchesAnyState(table, h) == h \in DOMAIN table

\* Line 63: the rows UPDATE pegs ... WHERE nonce_hash=$3 AND zioncoin_tx=0
\* affects.
UpdateMatches(table, h) == h \in DOMAIN table /\ table[h].zioncoin_tx = 0

\* Lines 58-75: the conditional update and the check of the affected rows.
PegInUpdate ==
    /\ proc = "up"
    /\ pegInPc = "update"
    /\ LET nonceHash == stream[cur].memo
           payment == stream[cur].ops[opIdx]
       IN  IF UpdateMatches(pegs, nonceHash)
           THEN /\ pegs' = [pegs EXCEPT ![nonceHash] =
                               [amount |-> payment.amount,
                                asset_xdr |-> MarshalAsset(payment.asset),
                                zioncoin_tx |-> 1]]
                /\ observedWrites' = [observedWrites EXCEPT
                                        ![nonceHash] = Append(@, cur)]
                /\ pegInPc' = "cursor"
                /\ UNCHANGED <<finVars, proc, cur, opIdx, waiterPc, enginePc, txids, idx,
                               err, peggedOut, pegOutTx>>
           ELSE \* numAffected != 1
                /\ Fatal(FatalPegRows)
                /\ UNCHANGED <<pegs, observedWrites>>
    /\ UNCHANGED <<exports, cursor, nextTxid, tx, accounts, applied, stream>>
    /\ UNCHANGED sideVars

\* Line 78: UPDATE custodian SET cursor=tx.PT.
PegInCursor ==
    /\ proc = "up"
    /\ pegInPc = "cursor"
    /\ cursor' = cur
    /\ pegInPc' = "broadcast"
    /\ UNCHANGED <<proc, exports, pegs, nextTxid, tx, waiterPc, enginePc,
                   txids, idx, err, peggedOut, pegOutTx, accounts, applied,
                   stream, cur, opIdx, observedWrites>>
    /\ UNCHANGED <<finVars, sideVars>>

\* Line 86: c.imports.Broadcast(), then the next operation of the loop.
PegInBroadcast ==
    /\ proc = "up"
    /\ pegInPc = "broadcast"
    /\ opIdx' = NextPegOp(stream[cur], opIdx)
    /\ pegInPc' = IF NextPegOp(stream[cur], opIdx) = 0 THEN "stream" ELSE "update"
    /\ UNCHANGED <<proc, exports, pegs, cursor, nextTxid, tx, waiterPc, enginePc,
                   txids, idx, err, peggedOut, pegOutTx, accounts, applied,
                   stream, cur, observedWrites>>
    /\ UNCHANGED <<finVars, sideVars>>

\* Lines 89-99: StreamTransactions returns an error other than
\* context.Canceled; the watcher backs off.
PegInStreamError ==
    /\ proc = "up"
    /\ pegInPc = "stream"
    /\ pegInPc' = "backoff"
    /\ UNCHANGED <<proc, exports, pegs, cursor, nextTxid, tx, waiterPc, enginePc,
                   txids, idx, err, peggedOut, pegOutTx, accounts, applied,
                   stream, cur, opIdx, observedWrites>>
    /\ UNCHANGED <<finVars, sideVars>>

\* Lines 100-104: the backoff timer fires; the loop streams again from cur.
PegInBackoffDone ==
    /\ proc = "up"
    /\ pegInPc = "backoff"
    /\ pegInPc' = "stream"
    /\ UNCHANGED <<proc, exports, pegs, cursor, nextTxid, tx, waiterPc, enginePc,
                   txids, idx, err, peggedOut, pegOutTx, accounts, applied,
                   stream, cur, opIdx, observedWrites>>
    /\ UNCHANGED <<finVars, sideVars>>

NextPegIn ==
    \/ \E mtx \in MainTxs : MainLedgerTx(mtx)
    \/ \E h \in NonceHashes : RecordPeg(h)
    \/ PegInStart
    \/ PegInDeliver
    \/ PegInUpdate
    \/ PegInCursor
    \/ PegInBroadcast
    \/ PegInStreamError
    \/ PegInBackoffDone
    \/ Stop
    \/ Restart

SpecPegIn == Init /\ [][NextPegIn]_vars

-----------------------------------------------------------------------------
(* The Post-Peg-Out Finalizer, watchPegOuts *)

FatalQueryPegOuts == "fatal: querying peg-outs"
FatalPostPegOut   == "fatal: doing post-peg-out"
FatalChannelClosed == "fatal: peg-outs channel closed"

\* The exports doPostPegOut has been called for.
HandedTxids == {handed[i].txid : i \in 1..Len(handed)}

\* doPostPegOut(ctx, p).  It settles the export on the side ledger (retire
\* or repay); the settled record is no longer among those the sweep finds.
\* Settling an export a second time is rejected by the export contract,
\* which holds the locked value once.
doPostPegOut(table, p) ==
    IF p.txid \in HandedTxids
    THEN [err |-> "rejected", exports |-> table]
    ELSE [err |-> "nil",
          exports |-> [t \in DOMAIN table \ {p.txid} |-> table[t]]]

\* The sweep's query without its WHERE clause.
SelectAnyState(table) == DOMAIN table

\* The sweep's query with the failed peg-outs left out.
SelectOkOnly(table) ==
    {t \in DOMAIN table : table[t].pegged_out = pegOutOK}

\* Lines 176-181: SELECT txid, pegout_json FROM exports
\*                WHERE pegged_out IN (pegOutOK, pegOutFail)
SelectFinished(table) ==
    {t \in DOMAIN table : table[t].pegged_out \in {pegOutOK, pegOutFail}}

\* Lines 175-184: the ticker fires and the sweep reads its rows.
FinalizerTick ==
    /\ proc = "up"
    /\ finPc = "select"
    /\ IF ctx = "cancelled"
       THEN \* ForQueryRows returns the context's error
            Fatal(FatalQueryPegOuts)
       ELSE /\ \E order \in Orders(SelectFinished(exports)) :
                  /\ finTxids' = order
                  /\ finPc' = IF Len(order) = 0 THEN "select" ELSE "sweep"
            /\ UNCHANGED <<proc, waiterPc, enginePc, txids, idx, err, peggedOut,
                           pegOutTx, pegInPc, cur, opIdx, ctx, pegouts>>
    /\ UNCHANGED <<exports, pegs, cursor, nextTxid, tx, accounts, applied,
                   stream, observedWrites, sideVars>>

\* Lines 185-196: the sweep hands its next row to doPostPegOut.  The pegOut
\* is decoded from pegout_json, which does not carry the state: p.State is
\* the zero value.
FinalizerSweep ==
    /\ proc = "up"
    /\ finPc = "sweep"
    /\ LET p == [txid |-> Head(finTxids), state |-> pegOutNotYet, via |-> "sweep"]
           res == doPostPegOut(exports, p)
       IN  /\ handed' = Append(handed, p)
           /\ exports' = res.exports
           /\ IF res.err # "nil"
              THEN Fatal(FatalPostPegOut)
              ELSE /\ finTxids' = Tail(finTxids)
                   /\ finPc' = IF Len(finTxids) = 1 THEN "select" ELSE "sweep"
                   /\ UNCHANGED <<proc, waiterPc, enginePc, txids, idx, err,
                                  peggedOut, pegOutTx, pegInPc, cur, opIdx,
                                  ctx, pegouts>>
    /\ UNCHANGED <<pegs, cursor, nextTxid, tx, accounts, applied, stream,
                   observedWrites, buildIn, buildOut, orderRun,
                   stage2Run, tripRun>>

\* export.go line 187 meets lines 197-204: the consumer loop's send of the
\* record it has just written as ok or fail, and watchPegOuts' receive, which
\* hands the record to doPostPegOut.
FinalizerRecv ==
    /\ proc = "up"
    /\ enginePc = "send"
    /\ finPc = "select"
    /\ pegouts = "open"
    /\ LET p == [txid |-> txids[idx], state |-> peggedOut, via |-> "channel"]
           res == doPostPegOut(exports, p)
       IN  /\ handed' = Append(handed, p)
           /\ exports' = res.exports
           /\ IF res.err # "nil"
              THEN Fatal(FatalPostPegOut)
              ELSE /\ EngineAdvance
                   /\ UNCHANGED <<proc, waiterPc, pegInPc, cur, opIdx, finVars>>
    /\ UNCHANGED <<pegs, cursor, nextTxid, tx, accounts, applied, stream,
                   observedWrites, buildIn, buildOut, orderRun,
                   stage2Run, tripRun>>

\* The feed of this specification: an export that pegs out, one that fails,
\* one that is queued for a retry.
FinalizerSideTxs ==
    {[log |-> ExportLog(5, MarshalPegOut(r)),
      locked |-> [amount |-> r.Amount,
                  asset |-> UnmarshalAsset(r.AssetXDR).asset]] :
        r \in {ExportRef(NativeAsset, 50, "GTEMP1", StartSeq),
               ExportRef(NativeAsset, 50, "GTEMP1", StartSeq + 1)}}

FinalizerExport == \E stx \in FinalizerSideTxs : watchExports(stx)

FinalizerPreExport == SubmitPreExportTx("GTEMP1", NativeAsset, 50)

NextFinalizer ==
    \/ FinalizerPreExport
    \/ FinalizerExport
    \/ WaiterWait
    \/ EngineRecv
    \/ EngineQuery
    \/ EnginePegOut
    \/ EngineUpdate
    \/ FinalizerRecv
    \/ FinalizerTick
    \/ FinalizerSweep
    \/ Stop
    \/ Restart

SpecFinalizer ==
    /\ Init
    /\ [][NextFinalizer]_vars
    /\ WF_vars(Restart)
    /\ WF_vars(FinalizerTick)
    /\ WF_vars(FinalizerSweep)
    /\ WF_vars(FinalizerRecv)

-----------------------------------------------------------------------------
(* The pipeline over stops and restarts, with exports that keep arriving *)

\* part_001 lines 149-159 for an export after the last one followed here:
\* its row is not followed, its Broadcast on c.exports is.
LaterBroadcast ==
    /\ proc = "up"
    /\ nextTxid = MaxSideTxs
    /\ waiterPc' = BroadcastExports(waiterPc)
    /\ UNCHANGED <<proc, storeVars, exportVars, enginePc, txids, idx, err,
                   peggedOut, pegOutTx, ledgerVars, stream, pegInPc, cur,
                   opIdx, observedWrites, finVars, sideVars>>

NextRecover ==
    \/ FinalizerPreExport
    \/ FinalizerExport
    \/ LaterBroadcast
    \/ WaiterWait
    \/ EngineRecv
    \/ EngineQuery
    \/ EnginePegOut
    \/ EngineUpdate
    \/ EngineSend
    \/ Stop
    \/ Restart

\* Every goroutine of pegOutFromExports that can take a step takes it, and
\* a stopped custodian is started again.  Exports arrive as they please.
SpecRecover ==
    /\ Init
    /\ [][NextRecover]_vars
    /\ WF_vars(Restart)
    /\ WF_vars(WaiterWait)
    /\ WF_vars(EngineRecv)
    /\ WF_vars(EngineQuery)
    /\ WF_vars(EnginePegOut)
    /\ WF_vars(EngineUpdate)
    /\ WF_vars(EngineSend)

-----------------------------------------------------------------------------
(* The loop body of pegOutFromExports, lines 134-182, as a function of the  *)
(* store and the main ledger, the ledger client reporting faithfully        *)

\* The loop body for the row txid: decode the payload, build and submit the
\* peg-out transaction, classify the answer, write the state.
ProcessRecord(st, txid) ==
    LET p   == UnmarshalPegOut(st.exports[txid].pegout_json).p
        t   == buildPegOutTx(CustodianAddr, SetAddress(p.Exporter).addr,
                             SetAddress(p.TempAddr).addr, Network,
                             UnmarshalAsset(p.AssetXDR).asset, p.Amount,
                             p.Seqnum)
        res == LedgerSubmit(st.accounts, t, TRUE)
        e   == ClientError(res.code, "faithful")
    IN  [exports   |-> WriteState(st.exports, txid, Classify(e)),
         accounts  |-> res.accounts,
         submitted |-> Append(st.submitted, [txid |-> txid, tx |-> t])]

\* The loop over the rows of the query in the order it returned them.
RECURSIVE ProcessInOrder(_, _)
ProcessInOrder(st, order) ==
    IF order = <<>> THEN st
    ELSE ProcessInOrder(ProcessRecord(st, Head(order)), Tail(order))

\* The payloads drawn: either temporary account, the sequence number it is
\* at or the next one, two assets.
OrderRefs ==
    {ExportRef(a, 50, t, s) : a \in {NativeAsset, Credit4Asset},
                              t \in TempAddrs, s \in {StartSeq, StartSeq + 1}}

\* The main ledger before the wake: each temporary account pre-authorized
\* for the native export at StartSeq, or not created.
OrderLedgers ==
    {accts \in [TempAddrs ->
                  {NoAccount} \cup
                  {[state |-> "live", seq |-> StartSeq,
                    signer |-> buildPegOutTx(CustodianAddr, ExporterAddr, t,
                                             Network, NativeAsset, 50, StartSeq)] :
                      t \in TempAddrs}] :
        \A t \in TempAddrs :
            accts[t] # NoAccount => accts[t].signer.source = t}

\* One wake over two pending records, in the one order and in the other.
ProcessBothOrders ==
    \E r1 \in OrderRefs, r2 \in OrderRefs, accts \in OrderLedgers :
        LET table == InsertExport(InsertExport(<<>>, 1, MarshalPegOut(r1)),
                                  2, MarshalPegOut(r2))
            st == [exports |-> table, accounts |-> accts, submitted |-> <<>>]
        IN  /\ orderRun' = [called |-> TRUE, start |-> st,
                            forth |-> ProcessInOrder(st, <<1, 2>>),
                            back  |-> ProcessInOrder(st, <<2, 1>>)]
            /\ UNCHANGED <<proc, storeVars, exportVars, engineVars, ledgerVars,
                           stream, pegInPc, cur, opIdx, observedWrites,
                           finVars, handed, buildIn, buildOut, stage2Run,
                           tripRun>>

NextOrder == ProcessBothOrders

SpecOrder == Init /\ [][NextOrder]_vars

-----------------------------------------------------------------------------
(* exportContract2, lines 64-85: stage 2 of the export contract, run on the *)
(* side ledger's stack machine.  A stack is a sequence, its top the last    *)
(* element.  A machine state holds the contract stack, the argument stack,  *)
(* the log, the values retired and the values locked in outputs.            *)

Top(stack) == stack[Len(stack)]
Pop(stack) == SubSeq(stack, 1, Len(stack) - 1)

Push(m, item) == [m EXCEPT !.con = Append(@, item)]
Drop(m) == [m EXCEPT !.con = Pop(@)]

\* get: the top of the argument stack moves to the contract stack.
Get(m) == [m EXCEPT !.con = Append(@, Top(m.arg)), !.arg = Pop(@)]

\* put: the top of the contract stack moves to the argument stack.
Put(m) == [m EXCEPT !.arg = Append(@, Top(m.con)), !.con = Pop(@)]

Swap(m) ==
    LET n == Len(m.con)
    IN  [m EXCEPT !.con = SubSeq(@, 1, n - 2) \o <<@[n], @[n - 1]>>]

\* n bury: the top item goes n places down.
Bury(m, n) ==
    LET k == Len(m.con)
    IN  [m EXCEPT !.con = SubSeq(@, 1, k - 1 - n) \o <<@[k]>>
                          \o SubSeq(@, k - n, k - 1)]

\* splitzero: a zero value of the same asset is split off the value on top.
Splitzero(m) ==
    Push(m, [kind |-> "value", amount |-> 0, asset |-> Top(m.con).asset])

PayToMultisigSeed == "payToMultisigSeed"
RetireSeed == "retireSeed"

\* part_002 lines 9-14, retireSrc: get retire, get log.
CallRetire(m) ==
    LET value   == Top(m.arg)
        refdata == Top(Pop(m.arg))
    IN  [m EXCEPT !.arg = Pop(Pop(@)),
                  !.retired = Append(@, value),
                  !.log = @ \o <<<<"X", RetireSeed, value>>,
                                 <<LogCode, RetireSeed, refdata>>>>]

\* standard.PayToMultisigProg1 with the arguments refdata, value, keys and
\* quorum: it logs the refdata and locks the value in an output that the
\* quorum of the keys can spend.
CallPayToMultisig(m) ==
    LET quorum  == Top(m.arg)
        keys    == Top(Pop(m.arg))
        value   == Top(Pop(Pop(m.arg)))
        refdata == Top(Pop(Pop(Pop(m.arg))))
        out     == [value |-> value, keys |-> keys, quorum |-> quorum]
    IN  [m EXCEPT !.arg = Pop(Pop(Pop(Pop(@)))),
                  !.outputs = Append(@, out),
                  !.log = @ \o <<<<LogCode, PayToMultisigSeed, refdata>>,
                                 <<OutputCode, PayToMultisigSeed, out>>>>]

CustodianPub == "custodianPub"
ExporterPub == "exporterPub"

\* The signature check with the key left open: any signature over the
\* transaction id passes.
CheckSigAnyKey(sig, txid) == sig.over = txid

\* custodianSigCheckerFmt, line 53: txid x"custodianPub" get 0 checksig verify.
CheckSig(sig, txid) == sig.by = CustodianPub /\ sig.over = txid

\* Lines 64-85.  The contract stack holds {exporter}, json, value and the
\* argument stack the selector.
exportContract2(exporter, json, value, selector) ==
    LET m0 == [con |-> <<exporter, json, value>>, arg |-> <<selector>>,
               log |-> <<>>, retired |-> <<>>, outputs |-> <<>>]
        m1 == Get(Swap(Bury(Splitzero(m0), 3)))
        m2 == Drop(m1)                                  \* jumpif takes the selector
        repay  == CallPayToMultisig(
                      Put(Push(Put(Put(Drop(Put(Push(m2, ""))))), 1)))
        retire == CallRetire(Drop(Put(Put(m2))))
        m3 == IF Top(m1.con) THEN retire ELSE repay
    IN  Put(Put(Push(m3, [kind |-> "contract", prog |-> "custodianSigChecker"])))

\* The transactions that run stage 2: the side-ledger transaction id and
\* the signature its caller supplies.
Stage2Txids == {"txid1", "txid2"}
Signatures == [by : {CustodianPub, ExporterPub}, over : Stage2Txids]

\* An execution of stage 2 in transaction txid.  The signature checker the
\* contract leaves on the argument stack has to be called for the
\* transaction to be valid: the machine ends with empty stacks only.
CallExportContract2 ==
    \E selector \in BOOLEAN, amount \in 1..MaxAmount, asset \in Assets,
       json \in {MarshalPegOut(ExportRef(a, MaxAmount, "GTEMP1", StartSeq)) :
                    a \in {NativeAsset, Credit4Asset}},
       txid \in Stage2Txids, sig \in Signatures :
        LET value == [kind |-> "value", amount |-> amount,
                      asset |-> MarshalAsset(asset)]
            m == exportContract2(<<ExporterPub>>, json, value, selector)
        IN  /\ stage2Run' = [called |-> TRUE, selector |-> selector,
                             value |-> value, json |-> json, txid |-> txid,
                             sig |-> sig, end |-> m,
                             valid |-> /\ Top(Pop(m.arg)).kind = "contract"
                                       /\ CheckSig(sig, txid)]
            /\ UNCHANGED <<proc, storeVars, exportVars, engineVars, ledgerVars,
                           stream, pegInPc, cur, opIdx, observedWrites,
                           finVars, handed, buildIn, buildOut, orderRun,
                           tripRun>>

NextStage2 == CallExportContract2

SpecStage2 == Init /\ [][NextStage2]_vars

-----------------------------------------------------------------------------
(* The reference payload from BuildExportTx to the consumer loop, as a     *)
(* function: the payload is encoded, stored, decoded, and the peg-out      *)
(* transaction is built from the decoded fields.                           *)

\* Line 300: the transaction SubmitPreExportTx makes the only signer of the
\* temporary account.
PreauthTx(custodian, exporter, temp, network, asset, amount, seqnum) ==
    buildPegOutTx(custodian, exporter, temp, network, asset, amount, seqnum)

\* Lines 134-158 and 193-194: the transaction the consumer loop builds from
\* a stored payload; ok is FALSE where the loop ends in log.Fatalf.
RebuildPegOutTx(json) ==
    LET ref      == UnmarshalPegOut(json)
        p        == ref.p
        asset    == UnmarshalAsset(p.AssetXDR)
        tempID   == SetAddress(p.TempAddr)
        exporter == SetAddress(p.Exporter)
    IN  IF ~ref.ok \/ ~asset.ok \/ ~tempID.ok \/ ~exporter.ok
        THEN [ok |-> FALSE, tx |-> NoTx]
        ELSE [ok |-> TRUE,
              tx |-> buildPegOutTx(CustodianAddr, exporter.addr, tempID.addr,
                                   Network, asset.asset, p.Amount, p.Seqnum)]

\* The strings a caller can pass as an address: addresses, the empty
\* string and a string that is not valid UTF-8.
TripTemps == TempAddrs \cup {BadAddr, InvalidUTF8Addr}
TripExporters == {ExporterAddr, InvalidUTF8Addr}

\* A payload as lines 359-367 fill it, encoded as line 368 does, and read
\* back as the consumer loop does.
CallRoundTrip ==
    \E asset \in Assets, amount \in 1..MaxAmount, temp \in TripTemps,
       seqnum \in {StartSeq, StartSeq + 1}, exporter \in TripExporters,
       anchor \in {<<>>, <<"anchor">>} :
        LET p == [ExportRef(asset, amount, temp, seqnum)
                    EXCEPT !.Exporter = exporter, !.Anchor = anchor]
            json == MarshalPegOut(p)
        IN  /\ tripRun' = [called |-> TRUE, asset |-> asset, p |-> p,
                           json |-> json, back |-> UnmarshalPegOut(json),
                           preauth |-> PreauthTx(CustodianAddr, exporter, temp,
                                                 Network, asset, amount, seqnum),
                           rebuilt |-> RebuildPegOutTx(json)]
            /\ UNCHANGED <<proc, storeVars, exportVars, engineVars, ledgerVars,
                           stream, pegInPc, cur, opIdx, observedWrites,
                           finVars, handed, buildIn, buildOut, orderRun,
                           stage2Run>>

NextRoundTrip == CallRoundTrip

SpecRoundTrip == Init /\ [][NextRoundTrip]_vars

-----------------------------------------------------------------------------
(* The pipeline with the faults its fatal exits are written for *)

\* The rows whose payload the consumer loop has still to decode.  The loop
\* decodes from the copy its query made (refs); the copy is read off the
\* store here.
ToDecode ==
    {txids[i] : i \in (IF enginePc = "loop" THEN idx ELSE idx + 1)..Len(txids)}

\* The store loses a record: the fault the affected-rows test of lines
\* 176-182 is there to catch.  Drawn for the rows the loop has decoded or
\* has not selected.
LoseRow ==
    /\ \E lost \in DOMAIN exports \ ToDecode :
          exports' = [t \in DOMAIN exports \ {lost} |-> exports[t]]
    /\ UNCHANGED <<proc, pegs, cursor, exportVars, engineVars, ledgerVars,
                   stream, pegInPc, cur, opIdx, observedWrites, finVars,
                   sideVars>>

\* The feed: an export that pegs out, and one whose temporary address does
\* not decode.
FaultSideTxs ==
    {[log |-> ExportLog(5, MarshalPegOut(r)),
      locked |-> [amount |-> r.Amount,
                  asset |-> UnmarshalAsset(r.AssetXDR).asset]] :
        r \in {ExportRef(NativeAsset, 50, "GTEMP1", StartSeq),
               ExportRef(NativeAsset, 50, BadAddr, StartSeq)}}

FaultExport == \E stx \in FaultSideTxs : watchExports(stx)

NextFaults ==
    \/ FinalizerPreExport
    \/ FaultExport
    \/ LoseRow
    \/ WaiterWait
    \/ EngineRecv
    \/ EngineQuery
    \/ EnginePegOut
    \/ EngineUpdate
    \/ EngineSend
    \/ Restart

SpecFaults == Init /\ [][NextFaults]_vars

-----------------------------------------------------------------------------
(* Cancellation of the shared context *)

\* The caller cancels the context the tasks were started with.
Cancel ==
    /\ proc = "up"
    /\ ctx = "live"
    /\ ctx' = "cancelled"
    /\ UNCHANGED <<proc, storeVars, exportVars, engineVars, ledgerVars, stream,
                   pegInPc, cur, opIdx, observedWrites, pegouts, finPc,
                   finTxids, sideVars>>

\* export.go lines 107-109: the waiter sees ctx.Err() != nil at the top of
\* its loop and returns.  It looks only there: not while it is inside
\* c.exports.Wait(), not while it is sending on ch.
WaiterReturn ==
    /\ proc = "up"
    /\ waiterPc = "check"
    /\ ctx = "cancelled"
    /\ waiterPc' = "returned"
    /\ UNCHANGED <<proc, storeVars, exportVars, enginePc, txids, idx, err,
                   peggedOut, pegOutTx, ledgerVars, stream, pegInPc, cur,
                   opIdx, observedWrites, finVars, sideVars>>

\* export.go lines 117-119 with the deferred close of line 101: the consumer
\* loop takes the ctx.Done() case of its select, returns, and the completion
\* channel is closed.
EngineReturn ==
    /\ proc = "up"
    /\ enginePc = "select"
    /\ ctx = "cancelled"
    /\ enginePc' = "returned"
    /\ pegouts' = "closed"
    /\ UNCHANGED <<proc, storeVars, exportVars, waiterPc, txids, idx, err,
                   peggedOut, pegOutTx, ledgerVars, stream, pegInPc, cur,
                   opIdx, observedWrites, ctx, finPc, finTxids, sideVars>>

\* part_001 lines 172-174: watchPegOuts takes the ctx.Done() case.
FinalizerReturn ==
    /\ proc = "up"
    /\ finPc = "select"
    /\ ctx = "cancelled"
    /\ finPc' = "returned"
    /\ UNCHANGED <<proc, storeVars, exportVars, engineVars, ledgerVars, stream,
                   pegInPc, cur, opIdx, observedWrites, ctx, pegouts,
                   finTxids, sideVars>>

\* part_001 lines 197-200: a receive from the closed channel is ready at
\* once with ok = false.  The select chooses among its ready cases at random,
\* so this case may be taken while ctx.Done() is ready too.
FinalizerClosed ==
    /\ proc = "up"
    /\ finPc = "select"
    /\ pegouts = "closed"
    /\ Fatal(FatalChannelClosed)
    /\ UNCHANGED <<storeVars, exportVars, ledgerVars, stream, observedWrites,
                   sideVars>>

\* part_001 lines 89-91 and 100-102: StreamTransactions returns
\* context.Canceled, or the select after the backoff takes ctx.Done().
PegInReturn ==
    /\ proc = "up"
    /\ pegInPc \in {"stream", "backoff"}
    /\ ctx = "cancelled"
    /\ pegInPc' = "returned"
    /\ UNCHANGED <<proc, storeVars, exportVars, engineVars, ledgerVars, stream,
                   cur, opIdx, observedWrites, finVars, sideVars>>

\* watchExports runs under RunPin with the same context: no block is handed
\* to it once the context is cancelled.
CancelExport ==
    /\ ctx = "live"
    /\ FinalizerExport

NextCancel ==
    \/ FinalizerPreExport
    \/ CancelExport
    \/ Cancel
    \/ WaiterWait
    \/ WaiterReturn
    \/ EngineRecv
    \/ EngineQuery
    \/ EnginePegOut
    \/ EngineUpdate
    \/ EngineReturn
    \/ FinalizerRecv
    \/ FinalizerTick
    \/ FinalizerSweep
    \/ FinalizerReturn
    \/ FinalizerClosed
    \/ PegInStart
    \/ PegInStreamError
    \/ PegInBackoffDone
    \/ PegInReturn

\* Every task is scheduled: a step of a task that stays possible is taken.
\* The ticker and the transport error of the stream are the environment's.
SpecCancel ==
    /\ Init
    /\ [][NextCancel]_vars
    /\ WF_vars(WaiterWait)
    /\ WF_vars(WaiterReturn)
    /\ WF_vars(EngineRecv)
    /\ WF_vars(EngineQuery)
    /\ WF_vars(EnginePegOut)
    /\ WF_vars(EngineUpdate)
    /\ WF_vars(EngineReturn)
    /\ WF_vars(FinalizerRecv)
    /\ WF_vars(FinalizerSweep)
    /\ WF_vars(FinalizerReturn)
    /\ WF_vars(PegInStart)
    /\ WF_vars(PegInBackoffDone)
    /\ WF_vars(PegInReturn)

-----------------------------------------------------------------------------
(* BuildExportTx *)

\* The split with the two results in each other's place.
SplitSwapped(value, amount) ==
    [ok   |-> amount >= 0 /\ amount <= value.amount,
     rest |-> [amount |-> amount, asset |-> value.asset],
     part |-> [amount |-> value.amount - amount, asset |-> value.asset]]

\* The side ledger's split (op.Split, lines 377 and 389): of a value and an
\* amount it leaves the value less the amount (rest) and, on top of it, a
\* value of the amount (part).
Split(value, amount) ==
    [ok   |-> amount >= 0 /\ amount <= value.amount,
     rest |-> [amount |-> value.amount - amount, asset |-> value.asset],
     part |-> [amount |-> amount, asset |-> value.asset]]

ErrInputLessThanExport == "cannot have input amount less than export amount"
ErrComputingTxID == "computing transaction ID"

\* Lines 338-415.  The transaction is kept as the log it produces, the value
\* it passes to the export contract with the payload, and the values it
\* outputs to pay-to-multisig contracts.
BuildExportTx(asset, exportAmt, inputAmt, tempAddr, anchor, seqnum) ==
    LET assetXDR == MarshalAsset(asset)
        pubkey == <<"pubkey">>
        ref == [AssetXDR |-> assetXDR, TempAddr |-> tempAddr, Seqnum |-> seqnum,
                Exporter |-> ExporterAddr, Amount |-> exportAmt,
                Anchor |-> <<"Split1", <<"Split2", anchor>>>>, Pubkey |-> pubkey]
        refdata == MarshalPegOut(ref)
        inputval == [amount |-> inputAmt, asset |-> assetXDR]
        split1 == Split(inputval, exportAmt)
        changeval == split1.rest
        retireval == split1.part
        outputs == IF inputAmt # exportAmt
                   THEN <<[value |-> changeval, owner |-> pubkey]>>
                   ELSE <<>>          \* op.Drop of the zero change
        split2 == Split(retireval, 0)
    IN  IF inputAmt < exportAmt
        THEN [called |-> TRUE, ok |-> FALSE, err |-> ErrInputLessThanExport]
        ELSE IF ~split1.ok \/ ~split2.ok
        THEN [called |-> TRUE, ok |-> FALSE, err |-> ErrComputingTxID]
        ELSE [called |-> TRUE, ok |-> TRUE,
              tx |-> [log |-> ExportLog(IF inputAmt # exportAmt THEN 7 ELSE 5,
                                        refdata),
                      locked |-> [value |-> split2.rest, ref |-> refdata,
                                  owner |-> pubkey],
                      outputs |-> outputs]]

\* A call of BuildExportTx.
CallBuildExportTx ==
    \E asset \in Assets, exportAmt \in 0..MaxAmount, inputAmt \in 0..MaxAmount,
       tempAddr \in TempAddrs \cup {BadAddr}, seqnum \in {StartSeq, StartSeq + 1} :
        /\ buildIn' = [called |-> TRUE, asset |-> asset, exportAmt |-> exportAmt,
                       inputAmt |-> inputAmt, tempAddr |-> tempAddr,
                       seqnum |-> seqnum]
        /\ buildOut' = BuildExportTx(asset, exportAmt, inputAmt, tempAddr,
                                     <<"anchor">>, seqnum)
        /\ UNCHANGED <<proc, exports, pegs, cursor, nextTxid, tx, waiterPc,
                       enginePc, txids, idx, err, peggedOut, pegOutTx, accounts,
                       applied, stream, pegInPc, cur, opIdx, observedWrites,
                       finVars, handed, orderRun, stage2Run, tripRun>>

NextBuild == CallBuildExportTx

SpecBuild == Init /\ [][NextBuild]_vars

-----------------------------------------------------------------------------
(* Properties of the export -> peg-out pipeline (Spec) *)

\* The decoded payload of export record e.
RecordOf(e) == UnmarshalPegOut(exports[e].pegout_json).p

\* The consumer holds the transaction it submitted for txids[idx].
HoldsPegOutTx == proc = "up" /\ enginePc \in {"update", "send"}

(* C1: over any interleaving of submissions, failures, retries, stops and
   restarts, the main ledger applies the peg-out transaction of an export
   record at most once, and never applies one transaction for two records. *)
PegOutAppliedAtMostOnce ==
    /\ \A a \in BagToSet(applied) : CopiesIn(a, applied) <= 1
    /\ \A a, b \in BagToSet(applied) : a.tx = b.tx => a = b

\* The peg-out of a record was applied, and a later submission for the same
\* record came back rejected.
ResubmissionRejected ==
    /\ enginePc = "update"
    /\ err = "tx_no_source_account"
    /\ [txid |-> txids[idx], tx |-> pegOutTx] \in BagToSet(applied)

(* C2: no export record is in state fail while the main ledger applied its
   peg-out payment. *)
NoFailAfterPayment ==
    \A e \in DOMAIN exports :
        ~ (/\ exports[e].pegged_out = pegOutFail
           /\ \E a \in BagToSet(applied) : a.txid = e)

AllowedStateChanges ==
    {<<pegOutNotYet, pegOutRetry>>, <<pegOutNotYet, pegOutOK>>,
     <<pegOutNotYet, pegOutFail>>, <<pegOutRetry, pegOutOK>>,
     <<pegOutRetry, pegOutFail>>}

(* C3: every change of a record's pegged_out is one of not-yet->retry,
   not-yet->ok, not-yet->fail, retry->ok, retry->fail; ok and fail are never
   overwritten with another state, and no record leaves the table. *)
MonotonePegOutState ==
    [][\A e \in DOMAIN exports :
          /\ e \in DOMAIN exports'
          /\ exports'[e].pegged_out # exports[e].pegged_out
                => <<exports[e].pegged_out, exports'[e].pegged_out>>
                       \in AllowedStateChanges]_vars

\* A record in state retry is about to be written fail while another record
\* is already terminal.
RetryAboutToFail ==
    /\ enginePc = "update"
    /\ exports[txids[idx]].pegged_out = pegOutRetry
    /\ peggedOut = pegOutFail
    /\ \E e \in DOMAIN exports : exports[e].pegged_out \in {pegOutOK, pegOutFail}

\* The state the classification rule gives for a submission that returned error e.
ClaimedState(e) ==
    CASE e = "nil" -> pegOutOK
      [] e = "tx_bad_seq" -> pegOutRetry
      [] OTHER -> pegOutFail

\* pegOut returned for txids[idx]: the consumer goes on to the write, or
\* exits because the error's result codes cannot be read.
PegOutReturned ==
    /\ proc = "up"
    /\ enginePc = "loop"
    /\ enginePc' = "update" \/ proc' = FatalResultCodes

\* The consumer's UPDATE of txids[idx].
UpdateStep ==
    /\ proc = "up"
    /\ enginePc = "update"
    /\ proc' = "up"
    /\ enginePc' # "update"

(* C4, as claimed: whenever pegOut returns, the consumer goes on to write ok
   for success, retry for "bad sequence number" and fail for every other
   failure. *)
RetryClassificationAsClaimed ==
    [][PegOutReturned =>
          enginePc' = "update" /\ peggedOut' = ClaimedState(err')]_vars

(* C4, amended: when pegOut returns nil, a ledger result code or an error
   that is no ledger-client error, the consumer writes ok for success, retry
   for "bad sequence number" and fail otherwise; when it returns a
   ledger-client error whose result codes cannot be read, the process exits
   and no state is written. *)
RetryClassification ==
    [][/\ (enginePc = "loop" /\ enginePc' = "update")
            => peggedOut' = ClaimedState(err')
       /\ UpdateStep
            => exports'[txids[idx]].pegged_out = ClaimedState(err)
       /\ (enginePc = "loop" /\ proc' = FatalResultCodes)
            => exports' = exports]_vars

\* A bad-sequence failure classified retry and about to be written.
BadSeqAboutToRetry ==
    /\ enginePc = "update"
    /\ err = "tx_bad_seq"
    /\ peggedOut = pegOutRetry

(* C8: the transaction the engine submits for a record has the recorded
   temporary account as source, the recorded sequence number plus one, and
   exactly two operations: an account merge into the exporter's account,
   then a payment from the custodian's account to the exporter. *)
PegOutTxShape ==
    HoldsPegOutTx =>
        LET p == RecordOf(txids[idx])
        IN  /\ pegOutTx.source = p.TempAddr
            /\ pegOutTx.seq = p.Seqnum + 1
            /\ Len(pegOutTx.ops) = 2
            /\ pegOutTx.ops[1].type = "AccountMerge"
            /\ pegOutTx.ops[1].destination = p.Exporter
            /\ pegOutTx.ops[2].type = "Payment"
            /\ pegOutTx.ops[2].source = CustodianAddr
            /\ pegOutTx.ops[2].destination = p.Exporter

\* A submitted peg-out transaction was applied.
PegOutSubmittedOk ==
    /\ enginePc = "update"
    /\ err = "nil"
    /\ [txid |-> txids[idx], tx |-> pegOutTx] \in BagToSet(applied)

(* C9: for every asset type, the payment of an applied peg-out transaction
   pays exactly the recorded amount, in the ledger's smallest unit, of
   exactly the recorded asset. *)
PaysRecordedAmount ==
    \A a \in BagToSet(applied) :
        LET p == RecordOf(a.txid)
            pay == a.tx.ops[Len(a.tx.ops)]
        IN  /\ pay.amount = p.Amount
            /\ MarshalAsset(pay.asset) = p.AssetXDR

\* The exports whose peg-out transaction the main ledger applied.
AppliedFor == {a.txid : a \in BagToSet(applied)}

(* C16: an export record has persisted state ok only if the main ledger
   applied the peg-out transaction submitted for it. *)
OkOnlyIfApplied ==
    \A t \in DOMAIN exports :
        exports[t].pegged_out = pegOutOK => t \in AppliedFor

\* One record is ok, and another, whose submission the ledger rejected, is
\* fail.
OneOkOneRejected ==
    \E t, u \in DOMAIN exports :
        /\ exports[t].pegged_out = pegOutOK
        /\ exports[u].pegged_out = pegOutFail
        /\ u \notin AppliedFor

\* Export t has a row in state not-yet and the custodian is up.
AwaitsPegOut(t) ==
    /\ proc = "up"
    /\ t \in DOMAIN exports
    /\ exports[t].pegged_out = pegOutNotYet

(* C11: every export record the Export Watcher has inserted and signalled
   eventually leaves state not-yet, as long as the custodian stays up. *)
NoLostWakeUp ==
    \A t \in 1..MaxSideTxs : AwaitsPegOut(t) ~> ~AwaitsPegOut(t)

-----------------------------------------------------------------------------
(* Properties of the Export Watcher (SpecExports) *)

\* The export shape as specified, on the log of transaction t.
ClaimedExportShape(t) ==
    LET n == Len(t.log)
    IN  /\ n \in {5, 7}
        /\ t.log[1][1] = "I"
        /\ t.log[2][1] = "L"
        /\ t.log[n - 1][1] = "O"
        /\ t.log[n - 2][1] = "L"
        /\ t.log[n - 2][2] = exportContract1Seed
        /\ t.log[2][3].kind = "json"

(* C7: the Export Watcher holds a record for the transaction it handled if
   and only if its log has exactly 5 or 7 entries, entry 0 is an input,
   entry 1 a log entry, the second-to-last an output, the third-to-last a
   log entry of the stage-1 export contract seed, and entry 1's payload
   parses. *)
ExportRecognitionPrecision ==
    tx.id # 0 => (tx.id \in DOMAIN exports <=> ClaimedExportShape(tx))

\* A 7-entry export was recorded after a transaction of another shape was
\* passed over.
RecordedSevenEntryExport ==
    /\ tx.id \in DOMAIN exports
    /\ Len(tx.log) = 7
    /\ \E i \in 1..tx.id : i \notin DOMAIN exports

(* C10: the amount and asset of the record the Export Watcher inserts equal
   the amount and asset of the value the transaction locked in the export
   contract. *)
RecordsLockedValue ==
    tx.id \in DOMAIN exports =>
        /\ RecordOf(tx.id).Amount = tx.locked.amount
        /\ RecordOf(tx.id).AssetXDR = MarshalAsset(tx.locked.asset)

(* C12: every delivery of a side-ledger transaction adds exactly one row,
   keyed by the transaction's id and in state not-yet, when the transaction
   is a recognized export, and no row otherwise; the id had no row before,
   and the rows already there stay as they are. *)
OneRowPerExport ==
    [][/\ \A t \in DOMAIN exports :
             t \in DOMAIN exports' /\ exports'[t] = exports[t]
       /\ nextTxid' = nextTxid => DOMAIN exports' = DOMAIN exports
       /\ nextTxid' # nextTxid =>
             /\ tx'.id \notin DOMAIN exports
             /\ DOMAIN exports' \ DOMAIN exports =
                    IF ClaimedExportShape(tx') THEN {tx'.id} ELSE {}
             /\ ClaimedExportShape(tx') =>
                    exports'[tx'.id] = [pegout_json |-> tx'.log[2][3],
                                        pegged_out |-> pegOutNotYet]]_vars

\* Two exports were delivered and each has its own row.
TwoExportsTwoRows ==
    /\ nextTxid = 2
    /\ DOMAIN exports = {1, 2}
    /\ \A t \in DOMAIN exports : exports[t].pegged_out = pegOutNotYet

-----------------------------------------------------------------------------
(* Properties of the Peg-In Watcher (SpecPegIn) *)

\* The positions of the stream whose memo is nonce hash h and that pay the
\* custodian.
PegInsOf(h) ==
    {k \in 1..Len(stream) : stream[k].memo = h /\ NextPegOp(stream[k], 0) # 0}

(* C5: for any nonce hash, over any sequence of deliveries of transactions
   carrying it as memo, the conditional update affects the peg row at most
   once, and the row it flipped stays observed. *)
ExactlyOncePegIn ==
    \A h \in NonceHashes :
        /\ Len(observedWrites[h]) <= 1
        /\ Len(observedWrites[h]) = 1
              => h \in DOMAIN pegs /\ pegs[h].zioncoin_tx = 1

\* A transaction whose peg is already observed was delivered and its update
\* affected no row: every memo in the stream has a peg row.
DuplicateDeliveryRejected ==
    /\ proc = FatalPegRows
    /\ \A k \in 1..Len(stream) : stream[k].memo \in DOMAIN pegs
    /\ \E h \in NonceHashes : Len(observedWrites[h]) = 1

(* C6: a watcher restarted from the persisted cursor is never handed again a
   transaction whose peg it has already marked observed, and the persisted
   cursor never lies beyond a peg-in of a recorded peg that is not
   marked observed. *)
IdempotentResume ==
    /\ \A h \in NonceHashes :
          ~ (/\ pegInPc = "update"
             /\ stream[cur].memo = h
             /\ opIdx = NextPegOp(stream[cur], 0)
             /\ \E i \in 1..Len(observedWrites[h]) : observedWrites[h][i] = cur)
    /\ \A h \in DOMAIN pegs :
          \A k \in PegInsOf(h) : k <= cursor => pegs[h].zioncoin_tx = 1

\* The step in which the conditional update of line 63 ran: the watcher
\* leaves the update, and not because the process was stopped.
PegUpdateRan == pegInPc = "update" /\ pegInPc' # "update" /\ proc' # "stopped"

(* C17: when a transaction whose payment has already marked its peg observed
   is delivered again, the update leaves the peg rows and the persisted
   cursor as they are and the watcher keeps running. *)
RedeliveryIdempotent ==
    [][(/\ PegUpdateRan
        /\ opIdx = NextPegOp(stream[cur], 0)
        /\ \E i \in 1..Len(observedWrites[stream[cur].memo]) :
              observedWrites[stream[cur].memo][i] = cur)
       => (pegs' = pegs /\ cursor' = cursor /\ proc' = "up")]_vars

(* C18: while the watcher handles a transaction whose memo matched an
   unobserved peg row when it was delivered, every payment to the custodian
   in it is handled without a fatal exit; the cursor is written only with
   the peg marked observed with the payment's asset and amount, and the
   imports condition is signalled only with the cursor persisted. *)
PegInHandledInOrder ==
    [][/\ (/\ PegUpdateRan
           /\ \/ UpdateMatches(pegs, stream[cur].memo)
              \/ /\ opIdx > NextPegOp(stream[cur], 0)
                 /\ observedWrites[stream[cur].memo] = <<cur>>)
          => proc' # FatalPegRows
       /\ pegInPc = "cursor" =>
             pegs[stream[cur].memo] =
                [amount |-> stream[cur].ops[opIdx].amount,
                 asset_xdr |-> MarshalAsset(stream[cur].ops[opIdx].asset),
                 zioncoin_tx |-> 1]
       /\ pegInPc = "broadcast" => cursor = cur]_vars

-----------------------------------------------------------------------------
(* Properties of BuildExportTx (SpecBuild) *)

\* The sum of the amounts of the values in a sequence of outputs.
RECURSIVE SumOutputs(_)
SumOutputs(outs) ==
    IF outs = <<>> THEN 0 ELSE Head(outs).value.amount + SumOutputs(Tail(outs))

(* C15: BuildExportTx returns an error and no transaction when the input
   amount is smaller than the export amount; otherwise its transaction
   passes exactly the export amount to the export contract and outputs
   exactly the input amount less the export amount back to the owner, with
   no output at all when the two amounts are equal. *)
ExportTxAmounts ==
    buildIn.called =>
        IF buildIn.inputAmt < buildIn.exportAmt
        THEN ~buildOut.ok /\ "tx" \notin DOMAIN buildOut
        ELSE /\ buildOut.ok
             /\ buildOut.tx.locked.value.amount = buildIn.exportAmt
             /\ SumOutputs(buildOut.tx.outputs) =
                    buildIn.inputAmt - buildIn.exportAmt
             /\ \A i \in 1..Len(buildOut.tx.outputs) :
                    /\ buildOut.tx.outputs[i].owner = buildOut.tx.locked.owner
                    /\ buildOut.tx.outputs[i].value.asset =
                           buildOut.tx.locked.value.asset
             /\ buildIn.inputAmt = buildIn.exportAmt =>
                    buildOut.tx.outputs = <<>>

\* A partial export: part of the input is locked, the rest is output back.
PartialExportBuilt ==
    /\ buildIn.called
    /\ buildOut.ok
    /\ buildIn.exportAmt = 1
    /\ buildIn.inputAmt = 3
    /\ Len(buildOut.tx.outputs) = 1

-----------------------------------------------------------------------------
(* Properties of the Post-Peg-Out Finalizer (SpecFinalizer) *)

\* Export t has a row whose persisted state is ok or fail.
AwaitsSettlement(t) ==
    /\ t \in DOMAIN exports
    /\ exports[t].pegged_out \in {pegOutOK, pegOutFail}

(* C13: if the custodian is stopped only finitely often, every export record
   whose persisted state is ok or fail is eventually handed to doPostPegOut,
   whether or not it was ever sent on the completion channel. *)
SweepCoversLostForwarding ==
    (<>[][proc' # "stopped"]_vars) =>
        \A t \in 1..MaxSideTxs : AwaitsSettlement(t) ~> (t \in HandedTxids)

\* A record whose forwarding was lost to a stop (it was never handed through
\* the channel) has been handed by the sweep.
LostForwardingSwept ==
    \E i \in 1..Len(handed) :
        /\ handed[i].via = "sweep"
        /\ \A j \in 1..Len(handed) :
              handed[j].txid = handed[i].txid => handed[j].via = "sweep"
    /\ proc = "up"
    /\ enginePc = "select"

(* C14: every record the sweep hands to doPostPegOut has persisted state ok
   or fail and has not been handed to doPostPegOut before, neither through
   the completion channel nor by an earlier sweep. *)
SweepHandsUnsettledOnly ==
    [][(/\ Len(handed') = Len(handed) + 1
        /\ handed'[Len(handed')].via = "sweep")
       => /\ handed'[Len(handed')].txid \in DOMAIN exports
          /\ exports[handed'[Len(handed')].txid].pegged_out
                \in {pegOutOK, pegOutFail}
          /\ handed'[Len(handed')].txid \notin HandedTxids]_vars

\* One record was settled through the channel, and a later sweep handed
\* another record and not that one.
SweepAfterChannel ==
    \E i, j \in 1..Len(handed) :
        /\ i < j
        /\ handed[i].via = "channel"
        /\ handed[j].via = "sweep"
        /\ handed[j].txid # handed[i].txid
        /\ proc = "up"

-----------------------------------------------------------------------------
(* Cancellation *)

\* The four tasks have returned, or the process has exited.
TasksTerminated ==
    \/ proc # "up"
    \/ /\ pegInPc = "returned"
       /\ finPc = "returned"
       /\ enginePc = "returned"
       /\ waiterPc = "returned"

Cancelled == proc = "up" /\ ctx = "cancelled"

\* C19: after the shared context is cancelled every task eventually
\* terminates: watchPegIns, watchPegOuts, the consumer loop of
\* pegOutFromExports and its waiter goroutine all return, whatever blocking
\* point each is at (a fatal exit of the process is counted as termination
\* here).
TasksTerminateAfterCancel == Cancelled ~> TasksTerminated

\* C20: after cancellation watchPegOuts never reaches the fatal exit
\* "peg-outs channel closed".
NoChannelClosedExit == proc # FatalChannelClosed

-----------------------------------------------------------------------------
(* Forwarding to the finalizer *)

\* The consumer loop has just arrived at its send on the completion channel.
ArrivesAtSend == enginePc # "send" /\ enginePc' = "send"

\* The call of doPostPegOut this step makes, if it makes one.
HandsRecord == Len(handed') = Len(handed) + 1

\* C21: a record is sent on the completion channel if and only if the state
\* just written for it is ok or fail, only after that state has been
\* persisted, and carrying its transaction id; a record classified retry is
\* never forwarded, and the post-peg-out handler, through the channel or the
\* sweep, is never invoked for a record whose persisted state is not-yet or
\* retry.
ForwardedIffTerminal ==
    [][/\ (enginePc = "update" /\ proc' = "up") =>
              (enginePc' = "send" <=>
                  exports'[txids[idx]].pegged_out \in {pegOutOK, pegOutFail})
       /\ ArrivesAtSend =>
              /\ enginePc = "update"
              /\ peggedOut' # pegOutRetry
              /\ exports'[txids'[idx']].pegged_out = peggedOut'
       /\ HandsRecord =>
              LET p == handed'[Len(handed')]
              IN  /\ p.txid \in DOMAIN exports =>
                        exports[p.txid].pegged_out \in {pegOutOK, pegOutFail}
                  /\ p.via = "channel" =>
                        /\ enginePc = "send"
                        /\ p.txid = txids[idx]
                        /\ p.state \in {pegOutOK, pegOutFail}
      ]_vars

\* A failed peg-out was handed over through the channel while another record
\* is queued for a retry and has not been handed over.
FailForwardedRetryKept ==
    /\ \E i \in 1..Len(handed) :
          handed[i].via = "channel" /\ handed[i].state = pegOutFail
    /\ \E t \in DOMAIN exports :
          exports[t].pegged_out = pegOutRetry /\ t \notin HandedTxids

-----------------------------------------------------------------------------
(* Retries and recovery *)

InRetry(t) == t \in DOMAIN exports /\ exports[t].pegged_out = pegOutRetry

Terminal(t) ==
    t \in DOMAIN exports /\ exports[t].pegged_out \in {pegOutOK, pegOutFail}

StaysUp == <>[][proc' = "up"]_vars

\* C22: a record in state retry is resubmitted on each later wake of the
\* Peg-Out Engine, and while the engine keeps being woken (and the custodian
\* stays up) every export record eventually reaches ok or fail: no record
\* stays in retry for ever.
RetryReachesTerminal ==
    (StaysUp /\ []<><<EngineRecv>>_vars) =>
        \A t \in 1..MaxSideTxs : InRetry(t) ~> Terminal(t)

\* A record awaits its peg-out.
Pending(t) ==
    t \in DOMAIN exports /\ exports[t].pegged_out \in {pegOutNotYet, pegOutRetry}

\* The consumer loop is at the submission for record t.
Submitting(t) ==
    /\ proc = "up"
    /\ enginePc = "update"
    /\ txids[idx] = t

\* C23: export records left in state not-yet or retry when the custodian
\* stops are eventually submitted after it restarts (if it then stays up),
\* without a new export having to be observed.
PendingRecoveredAfterRestart ==
    StaysUp =>
        \A t \in 1..MaxSideTxs :
            (proc = "stopped" /\ Pending(t)) ~> (Submitting(t) \/ ~Pending(t))

-----------------------------------------------------------------------------
(* Wakes of the Peg-Out Engine *)

PendingSet(table) ==
    {t \in DOMAIN table : table[t].pegged_out \in {pegOutNotYet, pegOutRetry}}

\* The step is the query of a wake that goes on.
QueryStep == enginePc = "query" /\ enginePc' # "query" /\ proc' = "up"

\* C24: the Export Watcher broadcasts on the exports condition only after
\* the export row is committed; each wake of the Peg-Out Engine processes
\* exactly the records that are not-yet or retry in the store at query time
\* (each once, in the order of the query, all of them unless the process
\* exits on the way); a wake that finds no such record changes no state and
\* submits nothing.
WakeProcessesPendingSet ==
    [][/\ (waiterPc = "waiting" /\ waiterPc' = "woken") =>
              \E t \in DOMAIN exports' \ DOMAIN exports :
                  exports'[t].pegged_out = pegOutNotYet
       /\ QueryStep =>
              /\ {txids'[i] : i \in 1..Len(txids')} = PendingSet(exports)
              /\ Len(txids') = Cardinality(PendingSet(exports))
              /\ PendingSet(exports) = {} =>
                    /\ enginePc' = "select"
                    /\ UNCHANGED <<exports, accounts, applied>>
       /\ (enginePc = "loop" /\ enginePc' = "update") =>
              /\ idx \in 1..Len(txids)
              /\ txids[idx] \in PendingSet(exports)
       /\ (applied' # applied \/ accounts' # accounts) =>
              \/ enginePc = "loop" /\ enginePc' \in {"update", "select"}
              \/ enginePc = enginePc' /\ exports' = exports
       /\ (enginePc \in {"update", "send"} /\ enginePc' \in {"loop", "select"}
             /\ proc' = "up") =>
              IF idx < Len(txids)
              THEN enginePc' = "loop" /\ idx' = idx + 1 /\ txids' = txids
              ELSE enginePc' = "select"
       /\ (enginePc = "loop" /\ proc' = "up") => (idx' = idx /\ txids' = txids)
      ]_vars

\* The engine has submitted for the one record of its selection while a
\* record inserted after the query awaits the next wake.
WakeLeavesLaterRecord ==
    /\ proc = "up"
    /\ enginePc = "update"
    /\ Len(txids) = 1
    /\ \E t \in PendingSet(exports) : t # txids[1]

-----------------------------------------------------------------------------
(* Export Watcher: payloads that do not parse *)

\* The Export Watcher has just looked at a transaction of the export shape
\* whose logged item does not decode into a pegOut.
LooksAtUnparsable ==
    /\ tx' # tx
    /\ IsExportShape(tx'.log)
    /\ ~UnmarshalPegOut(tx'.log[2][3]).ok

\* C25: a side-ledger transaction that matches the export log shape but
\* whose reference payload fails to parse produces no export row and no
\* broadcast, and the Export Watcher goes on to the next transaction of the
\* block without error.
UnparsablePayloadSkipped ==
    [][LooksAtUnparsable =>
          /\ exports' = exports
          /\ waiterPc' = waiterPc
          /\ proc' = "up"
      ]_vars

-----------------------------------------------------------------------------
(* Fatal exits of the Peg-Out Engine *)

\* The persisted payload does not decode into what the submission needs.
Unparsable(json) ==
    LET r == UnmarshalPegOut(json)
    IN  \/ ~r.ok
        \/ ~UnmarshalAsset(r.p.AssetXDR).ok
        \/ r.p.TempAddr \notin ValidAddrs
        \/ r.p.Exporter \notin ValidAddrs

\* The consumer loop (and not another task) takes the step.
EngineLeaves(pc) == enginePc = pc /\ (enginePc' # pc \/ proc' # "up")

EngineFatal == proc \in {FatalRefdata, FatalRowsAffected}

\* C26: when the peg-out state update affects a number of rows other than
\* one, or the persisted payload of a selected record cannot be parsed, the
\* Peg-Out Engine stops in a fatal state: it forwards nothing for that
\* record and processes no further record.
FatalStopsEngine ==
    [][/\ (EngineLeaves("update") /\ ctx = "live"
             /\ txids[idx] \notin DOMAIN exports) =>
              /\ proc' = FatalRowsAffected
              /\ enginePc' # "send"
              /\ UNCHANGED <<exports, applied, handed>>
       /\ (EngineLeaves("loop") /\ txids[idx] \in DOMAIN exports
             /\ Unparsable(exports[txids[idx]].pegout_json)) =>
              /\ proc' = FatalRefdata
              /\ enginePc' # "send"
              /\ UNCHANGED <<exports, applied, handed>>
       /\ EngineFatal =>
              /\ UNCHANGED <<applied, handed, enginePc, txids, idx>>
              /\ \A t \in DOMAIN exports \cap DOMAIN exports' :
                    exports'[t] = exports[t]
      ]_vars

\* The update found its row gone and the process has exited with the record
\* neither written nor forwarded.
RowLostEngineStopped ==
    /\ proc = FatalRowsAffected
    /\ enginePc = "select"
    /\ txids = <<>>

-----------------------------------------------------------------------------
(* Independence of the peg-outs of distinct exports *)

TempOf(table, t) == UnmarshalPegOut(table[t].pegout_json).p.TempAddr

SubmittedFor(run, t) ==
    {run.submitted[i].tx : i \in {j \in 1..Len(run.submitted) :
                                     run.submitted[j].txid = t}}

\* Both orders end with the same state for every record and have submitted
\* the same transaction for it; only pegged_out values were written.
SameEitherOrder ==
    /\ orderRun.forth.exports = orderRun.back.exports
    /\ \A t \in DOMAIN orderRun.start.exports :
          /\ SubmittedFor(orderRun.forth, t) = SubmittedFor(orderRun.back, t)
          /\ Cardinality(SubmittedFor(orderRun.forth, t)) = 1
          /\ orderRun.forth.exports[t].pegout_json =
                 orderRun.start.exports[t].pegout_json
    /\ DOMAIN orderRun.forth.exports = DOMAIN orderRun.start.exports

\* C27 as stated: the peg-outs of distinct exports are independent: the
\* final state of each record and the main-ledger transaction submitted for
\* it are the same for every order in which the engine processes the pending
\* records, and processing a record changes only that record's pegged_out.
OrderIndependenceAsStated == orderRun.called => SameEitherOrder

\* C27: the same, for exports that go through distinct temporary accounts.
OrderIndependence ==
    (/\ orderRun.called
     /\ TempOf(orderRun.start.exports, 1) # TempOf(orderRun.start.exports, 2)) =>
        SameEitherOrder

\* Two exports through distinct pre-authorized accounts, both pegged out.
TwoAccountsBothPeggedOut ==
    /\ orderRun.called
    /\ TempOf(orderRun.start.exports, 1) # TempOf(orderRun.start.exports, 2)
    /\ \A t \in {1, 2} : orderRun.forth.exports[t].pegged_out = pegOutOK

-----------------------------------------------------------------------------
(* The persisted cursor *)

\* C28: the persisted main-ledger cursor never decreases: every write of the
\* cursor stores the position of the transaction being handled, which is at
\* or after the position persisted before.
CursorNeverDecreases ==
    [][/\ cursor' >= cursor
       /\ cursor' # cursor => (pegInPc = "cursor" /\ cursor' = cur)
      ]_vars

\* The cursor was written for two transactions, one after the other.
CursorWrittenTwice ==
    /\ cursor = 2
    /\ \E h \in NonceHashes : observedWrites[h] = <<2>>
    /\ \E h \in NonceHashes : observedWrites[h] = <<1>>

-----------------------------------------------------------------------------
(* Peg-In Watcher: the update before the cursor write and the broadcast *)

\* The conditional update of this step changed the row of h and no other
\* row, from not observed to observed.
FlipsExactly(h) ==
    /\ h \in DOMAIN pegs
    /\ pegs[h].zioncoin_tx = 0
    /\ pegs'[h].zioncoin_tx = 1
    /\ DOMAIN pegs' = DOMAIN pegs
    /\ \A g \in DOMAIN pegs \ {h} : pegs'[g] = pegs[g]

\* C29: whenever the Peg-In Watcher writes the cursor or broadcasts on the
\* imports condition, the conditional update just before flipped exactly one
\* peg row; an update that matches no row (unknown nonce hash, or a peg
\* already observed) halts the watcher before any cursor write or broadcast.
CursorAndBroadcastAfterOneRow ==
    [][/\ (pegInPc # "cursor" /\ pegInPc' = "cursor") =>
              (pegInPc = "update" /\ FlipsExactly(stream[cur].memo))
       /\ cursor' # cursor => (pegInPc = "cursor" /\ pegInPc' = "broadcast")
       /\ (pegInPc # "broadcast" /\ pegInPc' = "broadcast") =>
              (pegInPc = "cursor" /\ pegs' = pegs)
       /\ (pegInPc = "update" /\ proc = "up" /\ pegInPc' # "update"
             /\ proc' # "stopped"
             /\ ~(/\ stream[cur].memo \in DOMAIN pegs
                  /\ pegs[stream[cur].memo].zioncoin_tx = 0)) =>
              /\ proc' = FatalPegRows
              /\ pegInPc' \notin {"cursor", "broadcast"}
              /\ UNCHANGED <<pegs, cursor>>
      ]_vars

\* The watcher is at its broadcast for a peg whose row it has just flipped
\* and whose position it has just persisted.
BroadcastAfterFlip ==
    /\ proc = "up"
    /\ pegInPc = "broadcast"
    /\ cursor = cur
    /\ pegs[stream[cur].memo].zioncoin_tx = 1
    /\ observedWrites[stream[cur].memo] = <<cur>>

-----------------------------------------------------------------------------
(* C30: stage 2 of the export contract consumes the locked value exactly    *)
(* once in either branch.  With a true selector the value is retired and    *)
(* the reference payload is logged; with a false selector the value is paid *)
(* to the exporter's key.  In both branches the contract leaves the         *)
(* custodian's signature checker to be called, and the transaction is valid *)
(* exactly when the signature is the custodian's over the transaction id.   *)

LogsPayload(m, json) ==
    \E i \in 1..Len(m.log) : m.log[i] = <<LogCode, RetireSeed, json>>

Stage2ConsumesOnceGated ==
    stage2Run.called =>
        LET r == stage2Run
            m == r.end
        IN  /\ Len(m.con) = 0
            /\ Len(m.arg) = 2
            /\ Top(m.arg) = [r.value EXCEPT !.amount = 0]
            /\ Top(Pop(m.arg)) = [kind |-> "contract",
                                  prog |-> "custodianSigChecker"]
            /\ Len(m.retired) + Len(m.outputs) = 1
            /\ r.selector =>
                  /\ m.retired = <<r.value>>
                  /\ LogsPayload(m, r.json)
            /\ ~r.selector =>
                  m.outputs = <<[value |-> r.value, keys |-> <<ExporterPub>>,
                                 quorum |-> 1]>>
            /\ r.valid <=> (r.sig.by = CustodianPub /\ r.sig.over = r.txid)

\* Stage 2 has run in both ways the statement names: the retire branch
\* under the custodian's signature is the state reached here.
Stage2RetiredUnderCustodianSig ==
    /\ stage2Run.called
    /\ stage2Run.selector
    /\ stage2Run.valid
    /\ Len(stage2Run.end.retired) = 1

-----------------------------------------------------------------------------
(* C31: the reference payload round-trips.  For every payload whose        *)
(* temporary-account and exporter strings are valid UTF-8, decoding the    *)
(* encoded form gives back the same asset, temporary account, sequence     *)
(* number, exporter, amount, anchor and public key; and where the two      *)
(* strings are addresses, the transaction rebuilt from the stored payload  *)
(* is the one SubmitPreExportTx pre-authorized for the same custodian,     *)
(* exporter, temporary account, network, asset, amount and sequence number.*)

SameFields(r) ==
    /\ r.back.ok
    /\ r.back.p.AssetXDR = r.p.AssetXDR
    /\ UnmarshalAsset(r.back.p.AssetXDR) = [ok |-> TRUE, asset |-> r.asset]
    /\ r.back.p.TempAddr = r.p.TempAddr
    /\ r.back.p.Seqnum = r.p.Seqnum
    /\ r.back.p.Exporter = r.p.Exporter
    /\ r.back.p.Amount = r.p.Amount
    /\ r.back.p.Anchor = r.p.Anchor
    /\ r.back.p.Pubkey = r.p.Pubkey

Addresses(r) == r.p.TempAddr \in ValidAddrs /\ r.p.Exporter \in ValidAddrs

PayloadRoundTrips ==
    (/\ tripRun.called
     /\ ValidUTF8(tripRun.p.TempAddr)
     /\ ValidUTF8(tripRun.p.Exporter)) =>
        /\ SameFields(tripRun)
        /\ Addresses(tripRun) =>
              /\ tripRun.rebuilt.ok
              /\ tripRun.rebuilt.tx = tripRun.preauth

\* The statement without the restriction to valid UTF-8: every payload
\* comes back with the same fields.
PayloadRoundTripsAsStated ==
    tripRun.called => SameFields(tripRun)

\* A payload of an issued asset with addresses in it has gone through the
\* JSON form and the transaction built from it is the pre-authorized one.
RebuiltThePreauthorizedTx ==
    /\ tripRun.called
    /\ tripRun.asset = Credit4Asset
    /\ Addresses(tripRun)
    /\ tripRun.p.Seqnum = StartSeq + 1
    /\ tripRun.rebuilt.ok
    /\ tripRun.rebuilt.tx = tripRun.preauth
    /\ tripRun.rebuilt.tx.seq = StartSeq + 2

=============================================================================
